---- MODULE Spec2Model ----
(***************************************************************************)
(* Watchpath: session construction (watchpath/parser.py), response         *)
(* normalisation and heuristic enrichment (watchpath/ai.py) and the        *)
(* per-session caller loops (cli.py, api.py, gui/main_window.py).          *)
(*                                                                         *)
(* Four specifications share the module:                                   *)
(*   Spec          load_sessions followed by summarize_sessions            *)
(*   SpecAnalysis  analyze_logs_ollama_chunk after the backend returned    *)
(*   SpecCallers   the loops that call the analyser once per session       *)
(*   SpecWindow    the main window starting, stopping and hearing workers  *)
(***************************************************************************)
EXTENDS Integers, Sequences, FiniteSets, TLC

VARIABLES
    \* ---- load_sessions / summarize_sessions
    lines,              \* the log file, one entry per line
    inactivity_window,  \* keyword argument of load_sessions (seconds)
    records,            \* parsed records, sorted by timestamp
    cursor,             \* position of the for-loop over records
    sessions,           \* the list being built / returned
    active_sessions,    \* key -> index into sessions (0: no entry)
    counters,           \* key -> sessions started so far (defaultdict(int))
    stats,              \* SessionStatistics, once summarize_sessions ran
    pc,                 \* "read" | "loop" | "done" | "summarized" | "raised" | "idle"
    calls,              \* calls of load_sessions made so far
    \* ---- analyze_logs_ollama_chunk / _enrich_analysis
    entry,              \* the function entered: "analyze" | "enrich" | "none"
    chunk_text,         \* argument log_chunk
    stdout,             \* what the backend process printed
    parsed,             \* (score, note, evidence) of _parse_analysis_output
    analysis,           \* the SessionAnalysis / the pair _enrich_analysis returns
    apc,                \* "call" | "returned" | "parsed" | "analysed" |
                        \* "runtime_error" | "raised" | "idle"
    \* ---- the loops over sessions of the CLI, the HTTP API and the GUI
    caller,             \* "cli" | "api" | "gui" | "none"
    total_sessions,     \* len(sessions)
    index,              \* the session the loop is at (1-based)
    collected,          \* reports held back until the loop is over
    emitted,            \* reports printed, returned or signalled
    run,                \* "start" | "loop" | "finished" | "aborted" |
                        \* "rejected" | "no_sessions" | "idle"
    raised_at,          \* the session whose exception left the loop (0: none)
    should_stop,        \* stopped_early (CLI) / _should_stop (GUI)
    confirm_each_session, \* CLI flag --confirm-each-session
    chunk_size,         \* the chunk size the caller was given
    log_exists,         \* log_path.exists()
    prompt_exists,      \* prompt_path.exists()
    analysing,          \* the session whose analysis is in flight (0: none)
    started,            \* the calls of the analyser, in order
    stop_at,            \* the session in flight when the stop was asked for
    \* ---- the main window and its analysis workers (gui/main_window.py)
    worker,             \* KawaiiMainWindow._worker (0: None)
    thread,             \* KawaiiMainWindow._thread, named by its worker (0: None)
    processed_sessions, \* KawaiiMainWindow._processed_sessions
    events,             \* signals queued for the window's thread, oldest first
    workers,            \* the AnalysisWorker objects created so far
    teardowns           \* thread.quit() calls made by _on_worker_finished

loadVars == <<lines, inactivity_window, records, cursor, sessions,
              active_sessions, counters, stats, pc, calls>>

aiVars == <<entry, chunk_text, stdout, parsed, analysis, apc>>

\* what a run is given; no step of a caller changes it
configVars == <<caller, total_sessions, confirm_each_session, chunk_size,
                log_exists, prompt_exists>>

runVars == <<configVars, index, collected, emitted, run, raised_at, should_stop,
             analysing, started, stop_at>>

winVars == <<worker, thread, processed_sessions, events, workers, teardowns>>

vars == <<loadVars, aiVars, runVars, winVars>>

(***************************************************************************)
(* Bounds and input domains                                                *)
(***************************************************************************)
MaxLines == 3

\* calls of load_sessions on one file within a process
MaxCalls == 2

\* seconds after 09:00:00; 1, 301 and 1502 are the timestamps of
\* test_load_sessions_groups_by_inactivity, 1 and 121 are 120 seconds apart as
\* the two records of test_summarize_sessions_and_format_report
Times == {1, 121, 301, 901, 1502}

\* the window of the test (10 minutes) and the default (15 minutes), in seconds
TEST_INACTIVITY_WINDOW == 600
DEFAULT_INACTIVITY_WINDOW == 900
Windows == {TEST_INACTIVITY_WINDOW, DEFAULT_INACTIVITY_WINDOW}

IPs == {"10.0.0.1", "10.0.0.2"}
\* the user field: "-" (no user), a user, and a user whose name is the
\* label that load_sessions gives to requests without a user
UserTokens == {"-", "alice", "anon"}

\* A line of the file: a well-formed access-log line (its fields), a line
\* the grammar rejects ("malformed"), a line whose timestamp strptime
\* rejects ("bad_time"), a blank line, or a line that fits the grammar and
\* the timestamp format and whose size token is a digit character that
\* int() does not accept, such as a superscript two ("digit_size").
GoodLines == [kind : {"ok"}, ip : IPs, user : UserTokens, time : Times,
              method : {"GET"}, status : {200}]
BadLines == {[kind |-> "malformed"], [kind |-> "bad_time"], [kind |-> "blank"],
             [kind |-> "digit_size"]}
Lines == GoodLines \cup BadLines

SeqsUpTo(S, n) == UNION {[1..k -> S] : k \in 0..n}

NoStats == [computed |-> FALSE]

(***************************************************************************)
(* parser.py                                                               *)
(***************************************************************************)
\* parse_log_line: None ("none") for a line LOG_PATTERN or strptime rejects;
\* ValueError ("raises") when size_token.isdigit() holds and int(size_token)
\* fails; user "-" becomes the empty string.  lineno identifies the line (raw).
parse_log_line(line, lineno) ==
    CASE line.kind \in {"malformed", "bad_time", "blank"} -> [kind |-> "none"]
      [] line.kind = "digit_size" -> [kind |-> "raises"]
      [] OTHER ->
         [kind |-> "record",
          ip |-> line.ip,
          user |-> IF line.user # "-" THEN line.user ELSE "",
          timestamp |-> line.time,
          method |-> line.method,
          status |-> line.status,
          lineno |-> lineno]

RECURSIVE InsertByTimestamp_BeforeEqual(_, _)
\* mutant: r goes in front of the elements that carry its timestamp
InsertByTimestamp_BeforeEqual(sorted, r) ==
    IF sorted = <<>> THEN <<r>>
    ELSE IF Head(sorted).timestamp < r.timestamp
         THEN <<Head(sorted)>> \o InsertByTimestamp_BeforeEqual(Tail(sorted), r)
         ELSE <<r>> \o sorted

RECURSIVE InsertByTimestamp(_, _)
\* insert r after every element whose timestamp is <= r's (stable)
InsertByTimestamp(sorted, r) ==
    IF sorted = <<>> THEN <<r>>
    ELSE IF Head(sorted).timestamp <= r.timestamp
         THEN <<Head(sorted)>> \o InsertByTimestamp(Tail(sorted), r)
         ELSE <<r>> \o sorted

\* mutant: the records are fed to the builder in file order
SortByTimestamp_FileOrder(rs) == rs

RECURSIVE SortByTimestamp(_)
\* records.sort(key=lambda record: record.timestamp): stable, ascending
SortByTimestamp(rs) ==
    IF rs = <<>> THEN <<>>
    ELSE InsertByTimestamp(SortByTimestamp(SubSeq(rs, 1, Len(rs) - 1)), rs[Len(rs)])

RECURSIVE ParseLines(_, _)
\* the two list comprehensions at the head of load_sessions: blank lines are
\* skipped, every other line is parsed, None results are dropped
ParseLines(ls, i) ==
    IF i > Len(ls) THEN <<>>
    ELSE LET rest == ParseLines(ls, i + 1)
             r == parse_log_line(ls[i], i)
         IN  IF ls[i].kind = "blank" \/ r.kind # "record" THEN rest
             ELSE <<r>> \o rest

\* a call of parse_log_line in the first list comprehension raises
ParseRaises(ls) ==
    \E i \in 1..Len(ls) : ls[i].kind # "blank" /\ parse_log_line(ls[i], i).kind = "raises"

Key(r) == <<r.ip, r.user>>
Keys == IPs \X ({""} \cup (UserTokens \ {"-"}))

\* mutant: the boundary excluded
WithinWindow_Strict(delta, window) == delta < window

\* delta <= inactivity_window (line 162)
WithinWindow(delta, window) == delta <= window

\* start_new of the loop body for record r
StartNew(r) ==
    LET existing == active_sessions[Key(r)]
    IN  ~ (/\ existing # 0
           /\ Len(sessions[existing].records) > 0
           /\ WithinWindow(r.timestamp
                             - sessions[existing].records[Len(sessions[existing].records)].timestamp,
                           inactivity_window))

\* mutant: the record joins the oldest session of its key
Existing_Oldest(key) ==
    CHOOSE i \in 1..Len(sessions) :
        /\ <<sessions[i].ip, IF sessions[i].user = "-" THEN "" ELSE sessions[i].user>> = key
        /\ \A j \in 1..(i - 1) :
              <<sessions[j].ip, IF sessions[j].user = "-" THEN "" ELSE sessions[j].user>> # key

\* existing = active_sessions.get(key), the session a record joins when no
\* new one is started (0: none)
Existing(key) == active_sessions[key]

SessionId(ip, user, n) ==
    ip \o "-" \o (IF user # "" THEN user ELSE "anon") \o "-" \o ToString(n)

NewSession(r, n) ==
    [session_id |-> SessionId(r.ip, r.user, n),
     ip |-> r.ip,
     user |-> IF r.user # "" THEN r.user ELSE "-",
     records |-> <<>>]

Start(s) == s.records[1].timestamp
End(s) == s.records[Len(s.records)].timestamp
\* Session.duration in seconds (records are never empty once returned)
Duration(s) == End(s) - Start(s)

RECURSIVE SumSeq(_)
SumSeq(q) == IF q = <<>> THEN 0 ELSE Head(q) + SumSeq(Tail(q))

\* mutant: zero durations are kept
SelectTruthy_KeepAll(ds) == ds

RECURSIVE SelectTruthy(_)
\* [d for d in ... if session.duration]: timedelta(0) is falsy
SelectTruthy(ds) ==
    IF ds = <<>> THEN <<>>
    ELSE IF Head(ds) # 0 THEN <<Head(ds)>> \o SelectTruthy(Tail(ds))
         ELSE SelectTruthy(Tail(ds))

\* the durations list of summarize_sessions
Durations(ss) == SelectTruthy([i \in 1..Len(ss) |-> Duration(ss[i])])

\* mutant: no guard for an empty list of durations
MeanDuration_Unguarded(ss) ==
    [num |-> SumSeq(Durations(ss)), den |-> Len(Durations(ss))]

\* statistics.mean(durations) if durations else 0.0, as the fraction num/den
MeanDuration(ss) ==
    LET ds == Durations(ss)
    IN  IF ds # <<>> THEN [num |-> SumSeq(ds), den |-> Len(ds)]
        ELSE [num |-> 0, den |-> 1]

AllRecords(ss) == {<<i, j>> \in (1..Len(ss)) \X (1..MaxLines + 1) : j <= Len(ss[i].records)}

Minute(t) == t - (t % 60)

At(ss, p) == ss[p[1]].records[p[2]]

MethodOf(r) == IF r.method # "" THEN r.method ELSE "UNKNOWN"
StatusOf(r) == r.status

\* mutant: the timeline is keyed by the timestamp itself
MinuteOf_Exact(r) == r.timestamp

MinuteOf(r) == Minute(r.timestamp)

\* mutant: one count per request of the address
IpCount_Requests(ss, ip) == Cardinality({p \in AllRecords(ss) : At(ss, p).ip = ip})

\* Counter(session.ip for session in session_list)[ip]
IpCount(ss, ip) == Cardinality({i \in 1..Len(ss) : ss[i].ip = ip})

summarize_sessions(ss) ==
    LET recs == {At(ss, p) : p \in AllRecords(ss)}
    IN  [computed |-> TRUE,
         mean_session_duration |-> MeanDuration(ss),
         ip_distribution |->
            [ip \in {ss[i].ip : i \in 1..Len(ss)} |-> IpCount(ss, ip)],
         request_counts |->
            [m \in {MethodOf(r) : r \in recs} |->
                Cardinality({p \in AllRecords(ss) : MethodOf(At(ss, p)) = m})],
         status_distribution |->
            [c \in {StatusOf(r) : r \in recs} |->
                Cardinality({p \in AllRecords(ss) : StatusOf(At(ss, p)) = c})],
         request_timeline |->
            [b \in {MinuteOf(r) : r \in recs} |->
                Cardinality({p \in AllRecords(ss) : MinuteOf(At(ss, p)) = b})]]

(***************************************************************************)
(* ai.py: texts                                                            *)
(*                                                                         *)
(* A text is a sequence of lexemes (strings): whitespace characters, log   *)
(* lines, numerals, words.  The em dash, the multiplication sign and the   *)
(* arrow of the source's f-strings are written "--", "x" and "->".         *)
(***************************************************************************)
SP == " "
LF == "\n"
CR == "\r"

IsSpace(t) == t \in {SP, LF, CR}
IsLineBreak(t) == t \in {LF, CR}

RECURSIVE LStrip(_)
LStrip(s) == IF s # <<>> /\ IsSpace(Head(s)) THEN LStrip(Tail(s)) ELSE s

RECURSIVE RStrip(_)
RStrip(s) ==
    IF s # <<>> /\ IsSpace(s[Len(s)]) THEN RStrip(SubSeq(s, 1, Len(s) - 1)) ELSE s

\* str.strip()
Strip(s) == RStrip(LStrip(s))

RECURSIVE SplitLinesAcc(_, _)
SplitLinesAcc(s, cur) ==
    IF s = <<>> THEN (IF cur = <<>> THEN <<>> ELSE <<cur>>)
    ELSE IF Head(s) = CR /\ Len(s) >= 2 /\ s[2] = LF
         THEN <<cur>> \o SplitLinesAcc(Tail(Tail(s)), <<>>)
    ELSE IF IsLineBreak(Head(s))
         THEN <<cur>> \o SplitLinesAcc(Tail(s), <<>>)
    ELSE SplitLinesAcc(Tail(s), Append(cur, Head(s)))

\* str.splitlines(): a break at "\n", "\r" and "\r\n", no empty last line
SplitLines(s) == SplitLinesAcc(s, <<>>)

RECURSIVE Join(_, _)
\* sep.join(texts), sep a text
Join(texts, sep) ==
    IF texts = <<>> THEN <<>>
    ELSE IF Len(texts) = 1 THEN texts[1]
    ELSE texts[1] \o sep \o Join(Tail(texts), sep)

RECURSIVE JoinStr(_, _)
\* sep.join(strings) for strings built by the f-strings of _analyse_log_chunk
JoinStr(strs, sep) ==
    IF strs = <<>> THEN ""
    ELSE IF Len(strs) = 1 THEN strs[1]
    ELSE strs[1] \o sep \o JoinStr(Tail(strs), sep)

RECURSIVE SelectNonBlank(_)
SelectNonBlank(ls) ==
    IF ls = <<>> THEN <<>>
    ELSE IF Strip(Head(ls)) # <<>> THEN <<Strip(Head(ls))>> \o SelectNonBlank(Tail(ls))
         ELSE SelectNonBlank(Tail(ls))

\* _normalise_logs
normalise_logs(log_chunk) == Join(SelectNonBlank(SplitLines(log_chunk)), <<LF>>)

(***************************************************************************)
(* ai.py: the tolerant re-parse of the chunk                               *)
(***************************************************************************)
LINE_PUT_REPORT ==
    "10.0.0.1 - - [28/Oct/2025:00:00:02 +0000] \"PUT /api/report HTTP/1.1\" 400 2572 \"-\" \"curl\""
LINE_POST_REPORT ==
    "10.0.0.1 - - [28/Oct/2025:00:00:03 +0000] \"POST /api/report HTTP/1.1\" 201 12 \"-\" \"curl\""
LINE_POST_LOGIN ==
    "10.0.0.1 - - [28/Oct/2025:00:00:04 +0000] \"POST /login HTTP/1.1\" 401 854 \"-\" \"Mozilla/5.0\""
LINE_GET_INDEX ==
    "10.0.0.1 - - [28/Oct/2025:00:00:05 +0000] \"GET /index.html HTTP/1.1\" 200 512 \"-\" \"Mozilla/5.0\""
LINE_GET_MISSING ==
    "10.0.0.1 - - [28/Oct/2025:00:00:06 +0000] \"GET /index.html HTTP/1.1\" 404 0 \"-\" \"Mozilla/5.0\""
\* a line _LOG_ENTRY_PATTERN does not match
LINE_JUNK == "-- log rotated --"

\* what _LOG_ENTRY_PATTERN.search captures in each log line
EntryOf ==
    (LINE_PUT_REPORT :> [method |-> "PUT", path |-> "/api/report", status |-> 400])
    @@ (LINE_POST_REPORT :> [method |-> "POST", path |-> "/api/report", status |-> 201])
    @@ (LINE_POST_LOGIN :> [method |-> "POST", path |-> "/login", status |-> 401])
    @@ (LINE_GET_INDEX :> [method |-> "GET", path |-> "/index.html", status |-> 200])
    @@ (LINE_GET_MISSING :> [method |-> "GET", path |-> "/index.html", status |-> 404])

LogLines == DOMAIN EntryOf

\* sorted(...) of method names and the path component of the sort keys
MethodOrder == <<"DELETE", "GET", "PATCH", "POST", "PUT">>
PathOrder == <<"/api/report", "/index.html", "/login">>
Rank(order, x) == CHOOSE i \in 1..Len(order) : order[i] = x

ContainsLogin(path) == path = "/login"

RECURSIVE FirstMatch(_)
\* _LOG_ENTRY_PATTERN.search(line): the leftmost request in the line
FirstMatch(line) ==
    IF line = <<>> THEN [found |-> FALSE]
    ELSE IF Head(line) \in LogLines THEN [found |-> TRUE, entry |-> EntryOf[Head(line)]]
    ELSE FirstMatch(Tail(line))

RECURSIVE EntriesOfLines(_)
EntriesOfLines(ls) ==
    IF ls = <<>> THEN <<>>
    ELSE LET m == FirstMatch(Head(ls))
         IN  IF Strip(Head(ls)) # <<>> /\ m.found
             THEN <<m.entry>> \o EntriesOfLines(Tail(ls))
             ELSE EntriesOfLines(Tail(ls))

\* _parse_log_entries
parse_log_entries(log_chunk) == EntriesOfLines(SplitLines(log_chunk))

RECURSIVE CountIn(_, _)
CountIn(q, x) ==
    IF q = <<>> THEN 0
    ELSE (IF Head(q) = x THEN 1 ELSE 0) + CountIn(Tail(q), x)

RECURSIVE DistinctInOrder(_, _)
\* the keys of a Counter, in insertion order
DistinctInOrder(q, seen) ==
    IF q = <<>> THEN <<>>
    ELSE IF Head(q) \in seen THEN DistinctInOrder(Tail(q), seen)
    ELSE <<Head(q)>> \o DistinctInOrder(Tail(q), seen \cup {Head(q)})

\* Counter(q).items(): [key, count] in insertion order
Items(q) ==
    LET ks == DistinctInOrder(q, {})
    IN  [i \in 1..Len(ks) |-> [key |-> ks[i], count |-> CountIn(q, ks[i])]]

RECURSIVE InsertItem(_, _, _)
\* stable insertion of item it into a list ordered by Before
InsertItem(sorted, it, pathIndex) ==
    IF sorted = <<>> THEN <<it>>
    ELSE LET h == Head(sorted)
             hBeforeOrEqual ==
                \/ h.count > it.count
                \/ /\ h.count = it.count
                   /\ \/ pathIndex = 0
                      \/ Rank(PathOrder, h.key[pathIndex]) <= Rank(PathOrder, it.key[pathIndex])
         IN  IF hBeforeOrEqual
             THEN <<h>> \o InsertItem(Tail(sorted), it, pathIndex)
             ELSE <<it>> \o sorted

RECURSIVE SortItems(_, _)
\* items ordered by descending count, ties by path (pathIndex: the position of
\* the path in the key, 0: no tie-break), otherwise in the given order (stable)
SortItems(items, pathIndex) ==
    IF items = <<>> THEN <<>>
    ELSE InsertItem(SortItems(SubSeq(items, 1, Len(items) - 1), pathIndex),
                    items[Len(items)], pathIndex)

FirstN(q, n) == SubSeq(q, 1, IF Len(q) < n THEN Len(q) ELSE n)

\* Counter(q).most_common(n)
MostCommon(q, n) == FirstN(SortItems(Items(q), 0), n)

Plural(n) == IF n # 1 THEN "s" ELSE ""

RECURSIVE AppendNew(_, _)
\* evidence_lines / evidence_set: a fragment is recorded once
AppendNew(evidence_lines, fragments) ==
    IF fragments = <<>> THEN evidence_lines
    ELSE AppendNew(
            IF \E i \in 1..Len(evidence_lines) : evidence_lines[i] = Head(fragments)
            THEN evidence_lines ELSE Append(evidence_lines, Head(fragments)),
            Tail(fragments))

\* mutant: only server errors count as error responses
SelectErrors_ServerOnly(entries) == SelectSeq(entries, LAMBDA e : e.status >= 500)

SelectErrors(entries) == SelectSeq(entries, LAMBDA e : e.status >= 400)

ErrorKeys(entries) ==
    LET errs == SelectErrors(entries)
    IN  [i \in 1..Len(errs) |-> <<errs[i].status, errs[i].method, errs[i].path>>]

LoginFailures(entries) ==
    Len(SelectSeq(SelectErrors(entries), LAMBDA e : ContainsLogin(e.path)))

ErrorFragments(entries) ==
    LET top == MostCommon(ErrorKeys(entries), 3)
    IN  [i \in 1..Len(top) |->
            ToString(top[i].count) \o "x " \o top[i].key[2] \o " " \o top[i].key[3]
                \o " -> " \o ToString(top[i].key[1])]

PathKeys(entries) == [i \in 1..Len(entries) |-> <<entries[i].path>>]
PairKeys(entries) == [i \in 1..Len(entries) |-> <<entries[i].method, entries[i].path>>]

\* mutant: a path requested twice already counts as repeated
RepeatedPaths_Twice(entries) ==
    FirstN(SortItems(SelectSeq(Items(PathKeys(entries)), LAMBDA it : it.count >= 2), 1), 3)

\* repeated_paths[:3] after the sort by (-count, path)
RepeatedPaths(entries) ==
    FirstN(SortItems(SelectSeq(Items(PathKeys(entries)), LAMBDA it : it.count >= 3), 1), 3)

MethodsFor(entries, path) ==
    SelectSeq(MethodOrder,
              LAMBDA m : \E i \in 1..Len(entries) :
                            entries[i].path = path /\ entries[i].method = m)

RepeatedFragments(entries) ==
    LET top == RepeatedPaths(entries)
    IN  [i \in 1..Len(top) |->
            LET methods == MethodsFor(entries, top[i].key[1])
            IN  ToString(top[i].count) \o "x " \o top[i].key[1] \o " via "
                    \o (IF methods # <<>> THEN JoinStr(methods, ", ") ELSE "unknown methods")]

WRITE_METHODS == {"POST", "PUT", "DELETE", "PATCH"}

\* write_targets[:3] after the sort by (-count, path)
WriteTargets(entries) ==
    FirstN(SortItems(SelectSeq(Items(PairKeys(entries)),
                               LAMBDA it : it.key[1] \in WRITE_METHODS), 2), 3)

StatusSummary(entries, pair) ==
    LET hits == SelectSeq(entries, LAMBDA e : <<e.method, e.path>> = pair)
        common == MostCommon([i \in 1..Len(hits) |-> <<hits[i].status>>], Len(hits))
    IN  JoinStr([i \in 1..Len(common) |->
                    ToString(common[i].key[1]) \o "x" \o ToString(common[i].count)], ", ")

WriteFragments(entries) ==
    LET top == WriteTargets(entries)
    IN  [i \in 1..Len(top) |->
            ToString(top[i].count) \o "x " \o top[i].key[1] \o " " \o top[i].key[2]
                \o " (" \o StatusSummary(entries, top[i].key) \o ")"]

RoutineNote(entries) ==
    LET total_requests == Len(entries)
        unique_paths == Len(Items(PathKeys(entries)))
        dominant_method ==
            MostCommon([i \in 1..Len(entries) |-> <<entries[i].method>>], 1)[1].key[1]
        dominant_status ==
            MostCommon([i \in 1..Len(entries) |-> <<entries[i].status>>], 1)[1].key[1]
    IN  "Routine activity detected: "
            \o ToString(total_requests) \o " request" \o Plural(total_requests)
            \o " across " \o ToString(unique_paths) \o " path" \o Plural(unique_paths)
            \o ", primarily " \o dominant_method
            \o " with status " \o ToString(dominant_status) \o "."

\* the findings of _analyse_log_chunk, in the order the code appends them
Findings(entries) ==
    LET total_errors == Len(SelectErrors(entries))
        login_failures == LoginFailures(entries)
        errors ==
            IF total_errors > 0
            THEN <<[kind |-> "errors",
                    text |-> "Detected " \o ToString(total_errors) \o " error response"
                                \o Plural(total_errors) \o " ("
                                \o JoinStr(ErrorFragments(entries), "; ") \o ")."]>>
            ELSE <<>>
        logins ==
            IF login_failures # 0
            THEN <<[kind |-> "failed_logins",
                    text |-> "Observed " \o ToString(login_failures)
                                \o " failed login attempt" \o Plural(login_failures) \o "."]>>
            ELSE <<>>
        repeated ==
            IF RepeatedPaths(entries) # <<>>
            THEN <<[kind |-> "repeated",
                    text |-> "Repeated access patterns: "
                                \o JoinStr(RepeatedFragments(entries), "; ") \o "."]>>
            ELSE <<>>
        writes ==
            IF WriteTargets(entries) # <<>>
            THEN <<[kind |-> "writes",
                    text |-> "Write operations observed: "
                                \o JoinStr(WriteFragments(entries), "; ") \o "."]>>
            ELSE <<>>
        triggered == errors \o logins \o repeated \o writes
    IN  IF triggered # <<>> THEN triggered
        ELSE <<[kind |-> "routine", text |-> RoutineNote(entries)]>>

\* mutant: the routine finding carries no evidence and no other finding does
DerivedEvidence_None(entries) == <<>>

\* evidence_lines of _analyse_log_chunk
DerivedEvidence(entries) ==
    AppendNew(AppendNew(AppendNew(<<>>, ErrorFragments(entries)),
                        RepeatedFragments(entries)),
              WriteFragments(entries))

\* _analyse_log_chunk: (note_segments, evidence_lines); each is a list of
\* strings, a note segment being kept with the kind of finding it reports
analyse_log_chunk(log_chunk) ==
    LET entries == parse_log_entries(log_chunk)
    IN  IF entries = <<>> THEN [insights |-> <<>>, evidence |-> <<>>]
        ELSE [insights |-> Findings(entries), evidence |-> DerivedEvidence(entries)]


(***************************************************************************)
(* ai.py: lexemes of model responses                                       *)
(***************************************************************************)
PLACEHOLDER_NOTE == "No analyst note provided."
NO_NOTE_RETURNED == "No analyst note returned."

\* numerals and the number each denotes, in ten-thousandths
NumeralValue ==
    ("0.42" :> 4200) @@ ("5" :> 50000) @@ ("75" :> 750000)
    @@ ("150" :> 1500000) @@ ("429" :> 4290000)
Numerals == DOMAIN NumeralValue
ONE == 10000
HUNDRED == 1000000

\* the digits of a numeral that ([0-9]{1,3})% captures in front of a "%"
TrailingDigits ==
    ("0.42" :> "42") @@ ("5" :> "5") @@ ("75" :> "75") @@ ("150" :> "150") @@ ("429" :> "429")
TrailingValue ==
    ("42" :> 420000) @@ ("5" :> 50000) @@ ("75" :> 750000)
    @@ ("150" :> 1500000) @@ ("429" :> 4290000)
\* numerals \(([0-9]{1,3})%\) accepts between the brackets
IsShortInteger(t) == t \in {"5", "75", "150", "429"}

\* str.lower() of a lexeme
Lower(t) ==
    CASE t = "Anomaly" -> "anomaly"
      [] t = "Analyst" -> "analyst"
      [] t = "Score" -> "score"
      [] t = "Note" -> "note"
      [] t = "None" -> "none"
      [] t = "N/A" -> "n/a"
      [] t = PLACEHOLDER_NOTE -> "no analyst note provided."
      [] t = NO_NOTE_RETURNED -> "no analyst note returned."
      [] t = "NO ANALYST NOTE PROVIDED." -> "no analyst note provided."
      [] t = "Suspicious" -> "suspicious"
      [] t = "Summary" -> "summary"
      [] t = "Impact" -> "impact"
      [] t = "Action" -> "action"
      [] t = "Confidence" -> "confidence"
      [] t = "True" -> "true"
      [] t = "False" -> "false"
      [] OTHER -> t

\* the number of characters of a lowered lexeme that [^a-z0-9] leaves
AlnumLen(t) ==
    CASE t \in {SP, LF, CR, ":", "=", "-", "%", "(", ")", "."} -> 0
      [] t \in {"5"} -> 1
      [] t \in {"75", "n/a", "ok"} -> 2
      [] t \in {"0.42", "150", "429", "nan", "inf"} -> 3
      [] t \in {"none", "note", "true"} -> 4
      [] t \in {"score", "login", "burst", "false"} -> 5
      [] t \in {"status", "impact", "action", "medium"} -> 6
      [] t \in {"anomaly", "analyst", "percent", "summary"} -> 7
      [] t \in {"suspicious", "confidence", "-- log rotated --"} -> 10
      [] t \in {"no analyst note provided.", "no analyst note returned."} -> 21
      [] t \in LogLines -> 53

IsDigitsOrDot(t) == t \in Numerals \cup {"."}

LowerText(s) == [i \in 1..Len(s) |-> Lower(s[i])]

RECURSIVE AlnumLenOf(_)
\* len(re.sub(r"[^a-z0-9]", "", lowered))
AlnumLenOf(s) == IF s = <<>> THEN 0 ELSE AlnumLen(Head(s)) + AlnumLenOf(Tail(s))

(***************************************************************************)
(* ai.py: decoded JSON values and Python floats                            *)
(***************************************************************************)
JNull == [t |-> "null"]
JStr(s) == [t |-> "str", s |-> s]
\* a number literal: the lexeme of the literal
JNum(lex) == [t |-> "num", lex |-> lex]
JBool(b) == [t |-> "bool", b |-> b]
JList(items) == [t |-> "list", items |-> items]
\* an object: d maps the keys that are present to their values
JDict(d) == [t |-> "dict", d |-> d]

\* an integer literal of 401 digits: beyond the range of a float
BIG_INTEGER == "1e400 written out as an integer"

\* dict.get(key): None when the key is missing
Get(obj, key) == IF key \in DOMAIN obj.d THEN obj.d[key] ELSE JNull

None == [k |-> "none", v |-> 0]
Fin(v) == [k |-> "fin", v |-> v]
NaN == [k |-> "nan", v |-> 0]
Inf == [k |-> "inf", v |-> 0]
NegInf == [k |-> "ninf", v |-> 0]

\* float(value) for a decoded int, float or bool; OverflowError for an int
\* beyond the float range
ToFloat(value) ==
    CASE value.t = "bool" -> [raised |-> FALSE, val |-> Fin(IF value.b THEN ONE ELSE 0)]
      [] value.lex = BIG_INTEGER -> [raised |-> TRUE, val |-> None]
      [] value.lex = "NaN" -> [raised |-> FALSE, val |-> NaN]
      [] value.lex = "Infinity" -> [raised |-> FALSE, val |-> Inf]
      [] value.lex = "-Infinity" -> [raised |-> FALSE, val |-> NegInf]
      [] value.lex = "-5" -> [raised |-> FALSE, val |-> Fin(-50000)]
      [] OTHER -> [raised |-> FALSE, val |-> Fin(NumeralValue[value.lex])]

\* comparisons of a float with a finite constant (all false for nan)
FloatLt(x, c) == \/ x.k = "ninf"
                 \/ x.k = "fin" /\ x.v < c
FloatGt(x, c) == \/ x.k = "inf"
                 \/ x.k = "fin" /\ x.v > c
FloatLe(x, c) == \/ x.k = "ninf"
                 \/ x.k = "fin" /\ x.v <= c
\* number / 100.0
Div100(x) == IF x.k = "fin" THEN Fin(x.v \div 100) ELSE x
\* min(number, 1.0): the first argument unless 1.0 is smaller
Min1(x) == IF FloatGt(x, ONE) THEN Fin(ONE) ELSE x

\* mutant: values above 1 are clamped whatever their size
Normalise_ClampOnly(number, is_percentage) ==
    Min1(IF FloatLt(number, 0) THEN Fin(0) ELSE number)

\* lines 370-379 of _safe_float
Normalise(number, is_percentage) ==
    LET nonneg == IF FloatLt(number, 0) THEN Fin(0) ELSE number
    IN  IF FloatGt(nonneg, ONE)
        THEN IF ~ is_percentage /\ FloatLe(nonneg, HUNDRED) THEN Min1(Div100(nonneg))
             ELSE IF ~ is_percentage THEN None
             ELSE Min1(nonneg)
        ELSE Min1(nonneg)

RECURSIVE FirstNumber(_, _)
\* re.search(r"-?[0-9]+(?:\.[0-9]+)?", cleaned): the leftmost numeral, with
\* the minus sign in front of it if there is one
FirstNumber(s, prev) ==
    IF s = <<>> THEN [found |-> FALSE, v |-> 0]
    ELSE IF Head(s) \in Numerals
         THEN [found |-> TRUE,
               v |-> IF prev = "-" THEN 0 - NumeralValue[Head(s)] ELSE NumeralValue[Head(s)]]
         ELSE FirstNumber(Tail(s), Head(s))

MarksPercent(s) == \E i \in 1..Len(s) : s[i] = "%" \/ Lower(s[i]) = "percent"

\* _safe_float
safe_float(value) ==
    CASE value.t = "null" -> [raised |-> FALSE, val |-> None]
      [] value.t \in {"num", "bool"} ->
            LET f == ToFloat(value)
            IN  IF f.raised THEN f
                ELSE [raised |-> FALSE, val |-> Normalise(f.val, FALSE)]
      [] value.t = "str" ->
            LET cleaned == Strip(value.s)
                match == FirstNumber(cleaned, "")
                pct == MarksPercent(cleaned)
            IN  IF cleaned = <<>> \/ ~ match.found THEN [raised |-> FALSE, val |-> None]
                ELSE [raised |-> FALSE,
                      val |-> Normalise(IF pct THEN Div100(Fin(match.v)) ELSE Fin(match.v), pct)]
      [] OTHER -> [raised |-> FALSE, val |-> None]


(***************************************************************************)
(* ai.py: note and evidence normalisation                                  *)
(***************************************************************************)
\* str(value) of a decoded scalar
Str(value) ==
    CASE value.t = "str" -> value.s
      [] value.t = "null" -> <<"None">>
      [] value.t = "bool" -> IF value.b THEN <<"True">> ELSE <<"False">>
      [] value.t = "num" ->
            CASE value.lex = "NaN" -> <<"nan">>
              [] value.lex = "Infinity" -> <<"inf">>
              [] value.lex = "-Infinity" -> <<"-", "inf">>
              [] value.lex = "-5" -> <<"-", "5">>
              [] OTHER -> <<value.lex>>

\* _clean_segment
clean_segment(value) == IF value.t = "null" THEN <<>> ELSE Strip(Str(value))

EndsSentence(t) == t \in {".", "!", "?", PLACEHOLDER_NOTE, NO_NOTE_RETURNED}

\* one labelled line of a structured note, forced to end in punctuation
LabelledPart(label, content) ==
    IF content = <<>> THEN <<>>
    ELSE LET fragment == RStrip(content)
         IN  <<<<label, ":", SP>> \o fragment
                 \o (IF ~ EndsSentence(fragment[Len(fragment)]) THEN <<".">> ELSE <<>>)>>

RECURSIVE Dedupe(_, _)
\* dict.fromkeys(flattened): first occurrences, in order
Dedupe(q, seen) ==
    IF q = <<>> THEN <<>>
    ELSE IF Head(q) \in seen THEN Dedupe(Tail(q), seen)
    ELSE <<Head(q)>> \o Dedupe(Tail(q), seen \cup {Head(q)})

RECURSIVE normalise_analyst_note(_)
\* _normalise_analyst_note
normalise_analyst_note(note) ==
    CASE note.t = "dict" ->
            LET confidence == clean_segment(Get(note, "confidence"))
                parts == LabelledPart("Summary", clean_segment(Get(note, "summary")))
                            \o LabelledPart("Impact", clean_segment(Get(note, "impact")))
                            \o LabelledPart("Action", clean_segment(Get(note, "action")))
                            \o (IF confidence # <<>>
                                THEN <<<<"Confidence", ":", SP>> \o confidence>>
                                ELSE <<>>)
            IN  IF Join(parts, <<LF>>) # <<>> THEN Join(parts, <<LF>>)
                ELSE <<PLACEHOLDER_NOTE>>
      [] note.t = "list" ->
            LET segments == [i \in 1..Len(note.items) |-> normalise_analyst_note(note.items[i])]
                flattened == SelectSeq(segments, LAMBDA seg : seg # <<>>)
            IN  IF flattened # <<>> THEN Join(Dedupe(flattened, {}), <<LF>>)
                ELSE <<PLACEHOLDER_NOTE>>
      [] note.t = "null" -> <<PLACEHOLDER_NOTE>>
      [] OTHER ->
            IF clean_segment(note) = <<>> THEN <<PLACEHOLDER_NOTE>> ELSE clean_segment(note)

NoEvidence == [k |-> "none", items |-> <<>>]
EvidenceList(items) == [k |-> "list", items |-> items]
EvidenceStr(s) == [k |-> "str", items |-> <<s>>]

\* str(evidence.get(key, "")).strip()
EvidenceField(obj, key) ==
    IF key \in DOMAIN obj.d THEN Strip(Str(obj.d[key])) ELSE <<>>

RECURSIVE CollectEvidence(_)
\* _normalise_evidence_payload, as the list of strings it collects (empty: None)
CollectEvidence(evidence) ==
    CASE evidence.t = "null" -> <<>>
      [] evidence.t = "str" ->
            IF Strip(evidence.s) # <<>> THEN <<Strip(evidence.s)>> ELSE <<>>
      [] evidence.t = "dict" ->
            LET log_excerpt == EvidenceField(evidence, "log_excerpt")
                reason == EvidenceField(evidence, "reason")
            IN  IF log_excerpt # <<>> /\ reason # <<>>
                THEN <<log_excerpt \o <<SP, "--", SP>> \o reason>>
                ELSE IF log_excerpt # <<>> THEN <<log_excerpt>>
                ELSE IF reason # <<>> THEN <<reason>>
                ELSE <<>>
      [] evidence.t = "list" ->
            LET RECURSIVE Collect(_)
                Collect(items) ==
                    IF items = <<>> THEN <<>>
                    ELSE CollectEvidence(Head(items)) \o Collect(Tail(items))
            IN  Collect(evidence.items)
      [] OTHER ->
            IF Strip(Str(evidence)) # <<>> THEN <<Strip(Str(evidence))>> ELSE <<>>

\* _normalise_evidence_payload
normalise_evidence_payload(evidence) ==
    IF CollectEvidence(evidence) # <<>> THEN EvidenceList(CollectEvidence(evidence))
    ELSE NoEvidence

(***************************************************************************)
(* ai.py: enrichment                                                       *)
(***************************************************************************)
RECURSIVE DropWhile(_, _)
DropWhile(s, S) == IF s # <<>> /\ Head(s) \in S THEN DropWhile(Tail(s), S) ELSE s

\* re.fullmatch(r"[0-9.]+%?", lowered)
IsBareNumber(s) ==
    LET digits == IF s # <<>> /\ s[Len(s)] = "%" THEN SubSeq(s, 1, Len(s) - 1) ELSE s
    IN  /\ digits # <<>>
        /\ \A i \in 1..Len(digits) : IsDigitsOrDot(digits[i])

\* re.fullmatch(r"(anomaly\s*)?score[:\s]*[0-9.]+%?", lowered)
IsBareScore(s) ==
    LET afterAnomaly ==
            IF s # <<>> /\ Head(s) = "anomaly" THEN DropWhile(Tail(s), {SP, LF, CR}) ELSE s
    IN  /\ afterAnomaly # <<>>
        /\ Head(afterAnomaly) = "score"
        /\ IsBareNumber(DropWhile(Tail(afterAnomaly), {":", SP, LF, CR}))

\* mutant: six alphanumeric characters are enough
note_is_informative_SixEnough(note) ==
    LET lowered == LowerText(Strip(note))
    IN  /\ lowered # <<>>
        /\ lowered \notin {<<"no analyst note provided.">>, <<"n/a">>, <<"none">>}
        /\ ~ IsBareScore(lowered)
        /\ ~ IsBareNumber(lowered)
        /\ AlnumLenOf(lowered) >= 6

\* _note_is_informative
note_is_informative(note) ==
    LET lowered == LowerText(Strip(note))
    IN  /\ lowered # <<>>
        /\ lowered \notin {<<"no analyst note provided.">>, <<"n/a">>, <<"none">>}
        /\ ~ IsBareScore(lowered)
        /\ ~ IsBareNumber(lowered)
        /\ AlnumLenOf(lowered) > 6

StripItems(items) ==
    LET stripped == [i \in 1..Len(items) |-> Strip(items[i])]
    IN  SelectSeq(stripped, LAMBDA x : x # <<>>)

\* _evidence_is_informative
evidence_is_informative(evidence, log_chunk) ==
    LET log_text == normalise_logs(log_chunk)
    IN  CASE evidence.k = "none" -> FALSE
          [] evidence.k = "str" ->
                Strip(evidence.items[1]) # <<>> /\ Strip(evidence.items[1]) # log_text
          [] evidence.k = "list" ->
                LET cleaned == StripItems(evidence.items)
                IN  /\ cleaned # <<>>
                    /\ ~ (Len(cleaned) = 1 /\ cleaned[1] = log_text)

\* "\n".join(insights)
InsightsNote(insights) == Join([i \in 1..Len(insights) |-> <<insights[i].text>>], <<LF>>)

\* mutant: the joined insights even when there is none
FallbackNote_NoPlaceholder(insights) == InsightsNote(insights)

\* fallback of _enrich_analysis (line 143)
FallbackNote(insights) ==
    IF insights # <<>> THEN InsightsNote(insights) ELSE <<PLACEHOLDER_NOTE>>

\* mutant: as soon as one half is unhelpful both halves are replaced
enrich_analysis_Coupled(analyst_note, evidence, log_chunk) ==
    LET derived == analyse_log_chunk(log_chunk)
        keep == note_is_informative(analyst_note)
                    /\ evidence_is_informative(evidence, log_chunk)
    IN  [note |-> IF keep THEN analyst_note ELSE FallbackNote(derived.insights),
         evidence |->
            IF keep
            THEN IF evidence.k = "list" THEN EvidenceList(StripItems(evidence.items))
                 ELSE evidence
            ELSE IF derived.evidence # <<>>
                 THEN EvidenceList([i \in 1..Len(derived.evidence) |-> <<derived.evidence[i]>>])
            ELSE NoEvidence]

\* _enrich_analysis: (enriched_note, enriched_evidence)
enrich_analysis(analyst_note, evidence, log_chunk) ==
    LET derived == analyse_log_chunk(log_chunk)
        enriched_note ==
            IF note_is_informative(analyst_note) THEN analyst_note
            ELSE FallbackNote(derived.insights)
        enriched_evidence ==
            IF evidence_is_informative(evidence, log_chunk)
            THEN IF evidence.k = "list" THEN EvidenceList(StripItems(evidence.items))
                 ELSE evidence
            ELSE IF derived.evidence # <<>>
                 THEN EvidenceList([i \in 1..Len(derived.evidence) |-> <<derived.evidence[i]>>])
            ELSE NoEvidence
    IN  [note |-> enriched_note, evidence |-> enriched_evidence]


(***************************************************************************)
(* ai.py: _parse_analysis_output                                           *)
(***************************************************************************)
\* A response is the text the backend printed.  kind "json": a text that
\* json.loads decodes to the object `data`.  kind "text": any other text; if
\* json.loads decodes it (a number, a list, null) the .get calls raise
\* AttributeError, otherwise json.loads raises JSONDecodeError, and both are
\* caught by the same except clause.
JsonOutput(data) == [kind |-> "json", text |-> <<"{...}">>, data |-> data]
TextOutput(text) == [kind |-> "text", text |-> text, data |-> JNull]

RECURSIVE SkipSpace(_, _)
\* the first position from j on that holds no whitespace (Len(s) + 1: none)
SkipSpace(s, j) == IF j <= Len(s) /\ IsSpace(s[j]) THEN SkipSpace(s, j + 1) ELSE j

\* \s*[:=-] from position j: the position after the separator, 0 if none
AfterSeparator(s, j) ==
    LET p == SkipSpace(s, j)
    IN  IF p <= Len(s) /\ s[p] \in {":", "=", "-"} THEN p + 1 ELSE 0

\* (?:\s+word)? from position j: the position after the word, 0 if absent
AfterWord(s, j, word) ==
    LET p == SkipSpace(s, j)
    IN  IF p > j /\ p <= Len(s) /\ Lower(s[p]) = word THEN p + 1 ELSE 0

\* keyword(?:\s+word)?\s*[:=-] at position i: the position after the
\* separator, 0 when the pattern does not match there
AfterLabel(s, i, keyword, word) ==
    IF Lower(s[i]) # keyword THEN 0
    ELSE LET w == AfterWord(s, i + 1, word)
         IN  IF w # 0 /\ AfterSeparator(s, w) # 0 THEN AfterSeparator(s, w)
             ELSE AfterSeparator(s, i + 1)

Least(S) == CHOOSE x \in S : \A y \in S : x <= y

\* re.search(r"anomaly(?:\s+score)?\s*[:=-]\s*([0-9]+(?:\.[0-9]+)?)", ...)
ScoreLabelMatch(s) ==
    LET hits == {i \in 1..Len(s) :
                    LET a == AfterLabel(s, i, "anomaly", "score")
                    IN  a # 0 /\ SkipSpace(s, a) <= Len(s) /\ s[SkipSpace(s, a)] \in Numerals}
    IN  IF hits = {} THEN [found |-> FALSE, group |-> <<>>]
        ELSE [found |-> TRUE,
              group |-> <<s[SkipSpace(s, AfterLabel(s, Least(hits), "anomaly", "score"))]>>]

\* re.search(r"\(([0-9]{1,3})%\)", cleaned)
BracketPercentMatch(s) ==
    LET hits == {i \in 1..Len(s) - 3 :
                    s[i] = "(" /\ IsShortInteger(s[i + 1]) /\ s[i + 2] = "%" /\ s[i + 3] = ")"}
    IN  IF hits = {} THEN [found |-> FALSE, group |-> <<>>]
        ELSE [found |-> TRUE, group |-> <<s[Least(hits) + 1]>>]

\* re.search(r"([0-9]{1,3})%", line)
PercentMatch(line) ==
    LET hits == {i \in 1..Len(line) - 1 : line[i] \in Numerals /\ line[i + 1] = "%"}
    IN  IF hits = {} THEN [found |-> FALSE, group |-> <<>>]
        ELSE [found |-> TRUE, group |-> <<TrailingDigits[line[Least(hits)]]>>]

\* _safe_float(group + "%") for the digits ([0-9]{1,3}) captured
PercentScore(group) == Normalise(Div100(Fin(TrailingValue[group[1]])), TRUE)

MentionsAnomaly(line) == \E i \in 1..Len(line) : Lower(line[i]) = "anomaly"

RECURSIVE AnomalyLineScore(_)
\* the loop over the lines that mention "anomaly": the first embedded percentage
AnomalyLineScore(ls) ==
    IF ls = <<>> THEN None
    ELSE IF MentionsAnomaly(Head(ls)) /\ PercentMatch(Head(ls)).found
         THEN PercentScore(PercentMatch(Head(ls)).group)
         ELSE AnomalyLineScore(Tail(ls))

RECURSIVE UpToLineEnd(_)
\* what (.+) takes: everything up to the next "\n"
UpToLineEnd(s) ==
    IF s = <<>> \/ Head(s) = LF THEN <<>> ELSE <<Head(s)>> \o UpToLineEnd(Tail(s))

\* re.search(r"analyst(?:\s+note)?\s*[:=-]\s*(.+)", cleaned, re.IGNORECASE)
NoteLabelMatch(s) ==
    LET hits == {i \in 1..Len(s) :
                    LET a == AfterLabel(s, i, "analyst", "note")
                    IN  a # 0 /\ SkipSpace(s, a) <= Len(s)}
    IN  IF hits = {} THEN [found |-> FALSE, group |-> <<>>]
        ELSE LET q == SkipSpace(s, AfterLabel(s, Least(hits), "analyst", "note"))
             IN  [found |-> TRUE, group |-> UpToLineEnd(SubSeq(s, q, Len(s)))]

\* the free-text score: the labelled score, else "(NN%)", else a percentage
\* in a line that mentions "anomaly"
FreeTextScore(cleaned) ==
    LET labelled == IF ScoreLabelMatch(cleaned).found
                    THEN safe_float(JStr(ScoreLabelMatch(cleaned).group)).val
                    ELSE None
        bracket == IF labelled.k = "none" /\ BracketPercentMatch(cleaned).found
                   THEN PercentScore(BracketPercentMatch(cleaned).group)
                   ELSE labelled
    IN  IF bracket.k = "none" THEN AnomalyLineScore(SplitLines(cleaned)) ELSE bracket

\* the free-text note: the labelled note, else the first non-empty line
FreeTextNote(cleaned) ==
    LET labelled == IF NoteLabelMatch(cleaned).found
                    THEN normalise_analyst_note(JStr(Strip(NoteLabelMatch(cleaned).group)))
                    ELSE normalise_analyst_note(JNull)
        first_lines == SelectNonBlank(SplitLines(cleaned))
        note == IF (labelled = <<>> \/ labelled = <<PLACEHOLDER_NOTE>>) /\ first_lines # <<>>
                THEN normalise_analyst_note(JStr(first_lines[1]))
                ELSE labelled
    IN  IF note # <<>> THEN note ELSE <<PLACEHOLDER_NOTE>>

NoTriple == [raised |-> FALSE, score |-> None, note |-> <<>>, evidence |-> NoEvidence]
Triple(score, note, evidence) ==
    [raised |-> FALSE, score |-> score, note |-> note, evidence |-> evidence]
\* an exception leaves _parse_analysis_output
Raised == [raised |-> TRUE, score |-> None, note |-> <<>>, evidence |-> NoEvidence]

\* lines 78-80
EmptyResponse == Triple(None, <<NO_NOTE_RETURNED>>, NoEvidence)

\* _parse_analysis_output
parse_analysis_output(output) ==
    LET cleaned == Strip(output.text)
    IN  IF cleaned = <<>> THEN EmptyResponse
        ELSE IF output.kind = "json" /\ output.data.t = "dict"
        THEN LET score == safe_float(Get(output.data, "anomaly_score"))
             IN  IF score.raised THEN Raised
                 ELSE Triple(score.val,
                             normalise_analyst_note(Get(output.data, "analyst_note")),
                             normalise_evidence_payload(Get(output.data, "evidence")))
        ELSE Triple(FreeTextScore(cleaned), FreeTextNote(cleaned), NoEvidence)

(***************************************************************************)
(* Inputs of the analysis: chunks and backend responses                    *)
(***************************************************************************)
MaxScoreLen == 3
MaxTextLen == 3
MaxListLen == 2
MaxChunkLines == 3

\* three error responses, one of them a failed login
CHUNK_ERRORS == <<LINE_PUT_REPORT, LF, LINE_POST_LOGIN, LF, LINE_GET_MISSING>>
\* a chunk whose first line kept its trailing blank (LogRecord.raw is the
\* line as read; LOG_PATTERN.match does not look behind the last field)
CHUNK_TRAILING_BLANK == <<LINE_GET_INDEX, SP, LF, LINE_GET_INDEX>>

\* log_chunk arguments of analyze_logs_ollama_chunk
AnalyzeChunks ==
    {<<>>, <<LINE_JUNK>>, <<LINE_GET_INDEX>>, CHUNK_ERRORS, CHUNK_TRAILING_BLANK}

\* a line of a chunk text: a log line, a line that is no request, a blank line
ChunkLineTexts == {<<l>> : l \in LogLines \cup {LINE_JUNK}} \cup {<<>>}
LineEndings == {<<LF>>, <<CR, LF>>}
Paddings == {<<>>, <<SP>>}

\* the lines joined by one line ending, each followed by the same padding
ChunkOf(ls, eol, pad) == Join([i \in 1..Len(ls) |-> ls[i] \o pad], eol)

\* log_chunk arguments of _enrich_analysis
EnrichChunks ==
    {ChunkOf(ls, eol, pad) :
        ls \in SeqsUpTo(ChunkLineTexts, MaxChunkLines), eol \in LineEndings, pad \in Paddings}

\* a key the object does not have
Absent == [t |-> "absent"]

\* the decoded object {"anomaly_score": .., "analyst_note": .., "evidence": ..}
Obj(score, note, evidence) ==
    LET present == {k \in {"anomaly_score", "analyst_note", "evidence"} :
                        CASE k = "anomaly_score" -> score # Absent
                          [] k = "analyst_note" -> note # Absent
                          [] k = "evidence" -> evidence # Absent}
    IN  JDict([k \in present |->
                  CASE k = "anomaly_score" -> score
                    [] k = "analyst_note" -> note
                    [] k = "evidence" -> evidence])

ScoreAlphabet == {"75", "150", "429", "0.42", "-", "%", "percent", SP, "status"}
ScoreValues ==
    {Absent, JNull, JBool(TRUE), JBool(FALSE), JList(<<>>), JDict(<<>>)}
    \cup {JNum(lex) : lex \in Numerals \cup {"-5", "NaN", "Infinity", "-Infinity", BIG_INTEGER}}
    \cup {JStr(s) : s \in SeqsUpTo(ScoreAlphabet, MaxScoreLen)}

NOTE_LOGIN == <<"Suspicious", SP, "login">>
NoteTexts ==
    {<<>>, <<SP>>, <<"ok">>, <<"N/A">>, <<"None">>, <<"75", "%">>, <<PLACEHOLDER_NOTE>>,
     <<"Anomaly", SP, "score", ":", SP, "0.42">>, NOTE_LOGIN}
NoteItems ==
    {JNull, JStr(<<>>), JStr(<<"ok">>), JStr(NOTE_LOGIN),
     JList(<<JStr(<<"ok">>), JStr(<<"burst">>)>>)}
NoteFields == {Absent, JNull, JStr(NOTE_LOGIN)}
NoteDicts ==
    {JDict([k \in ks |-> IF k = "confidence" THEN JNum("0.42") ELSE JStr(NOTE_LOGIN)]) :
        ks \in SUBSET {"summary", "impact", "action", "confidence"}}
    \cup {JDict([summary |-> JNull]), JDict([summary |-> JStr(<<SP>>)])}
NoteValues ==
    {Absent, JNull, JNum("75"), JBool(TRUE)}
    \cup {JStr(s) : s \in NoteTexts}
    \cup {JList(items) : items \in SeqsUpTo(NoteItems, MaxListLen)}
    \cup NoteDicts

EvidenceFields(chunk) == {Absent, JNull, JStr(<<>>), JStr(chunk), JStr(<<"burst">>)}
EvidenceItems(chunk) ==
    {JNull, JStr(<<SP>>), JNum("75"), JStr(chunk), JDict([reason |-> JStr(<<"ok">>)]),
     JList(<<JStr(<<"burst">>)>>)}
EvidenceValues(chunk) ==
    {Absent, JNull, JNum("75"), JStr(<<>>), JStr(chunk), JStr(<<"burst">>)}
    \cup {JDict([k \in {"log_excerpt", "reason"} \cap ks |->
                    IF k = "log_excerpt" THEN e ELSE r]) :
            ks \in SUBSET {"log_excerpt", "reason"},
            e \in EvidenceFields(chunk) \ {Absent}, r \in EvidenceFields(chunk) \ {Absent}}
    \cup {JList(items) : items \in SeqsUpTo(EvidenceItems(chunk), MaxListLen)}

\* responses that decode to a JSON object
JsonOutputs(chunk) ==
    {JsonOutput(Obj(score, JStr(NOTE_LOGIN), Absent)) : score \in ScoreValues}
    \cup {JsonOutput(Obj(JNum("0.42"), note, evidence)) :
            note \in NoteValues, evidence \in {Absent, JStr(chunk), JStr(<<"burst">>)}}
    \cup {JsonOutput(Obj(JNum("0.42"), note, evidence)) :
            note \in {Absent, JStr(<<"ok">>), JStr(NOTE_LOGIN)},
            evidence \in EvidenceValues(chunk)}

TextAlphabet == {"Anomaly", "Analyst", ":", SP, LF, "75", "%", "ok"}
TextOpenings ==
    {<<>>,
     <<"Anomaly", SP, "score", SP, "-", SP>>,
     <<"Analyst", SP, "note", "=", SP>>,
     <<"status", SP, "(", "75", "%", ")">>,
     <<"status", SP, "(", "0.42", "%", ")", LF, "anomaly", SP, "150", "%">>}
\* responses that are no JSON object
TextOutputs ==
    {TextOutput(opening \o rest) :
        opening \in TextOpenings, rest \in SeqsUpTo(TextAlphabet, MaxTextLen)}

Outputs(chunk) == JsonOutputs(chunk) \cup TextOutputs

\* (analyst_note, evidence) arguments of a direct call of _enrich_analysis
EnrichNotes ==
    {<<>>, <<PLACEHOLDER_NOTE>>, NOTE_LOGIN,
     <<SP>>, <<"NO ANALYST NOTE PROVIDED.">>, <<"Score", ":", SP, "75", "%">>,
     <<"status">>, <<"anomaly">>}
EnrichEvidence(chunk) ==
    {NoEvidence, EvidenceStr(chunk), EvidenceList(<<chunk>>),
     EvidenceList(<<<<"burst">>>>), EvidenceList(<<chunk, <<"burst">>>>)}

(***************************************************************************)
(* analyze_logs_ollama_chunk and _enrich_analysis as a state machine       *)
(***************************************************************************)
NoOutput == TextOutput(<<>>)
NoAnalysis ==
    [anomaly_score |-> None, analyst_note |-> <<>>, evidence |-> NoEvidence,
     raw_response |-> NoOutput]

MaxWorkers == 2

Unborn == [state |-> "unborn", should_stop |-> FALSE, index |-> 0, analysing |-> 0,
           total |-> 0]

\* no window is open
WindowIdle ==
    /\ worker = 0
    /\ thread = 0
    /\ processed_sessions = <<>>
    /\ events = <<>>
    /\ workers = [w \in 1..MaxWorkers |-> Unborn]
    /\ teardowns = {}

\* no caller loop is running
RunIdle ==
    /\ caller = "none"
    /\ total_sessions = 0
    /\ index = 0
    /\ collected = <<>>
    /\ emitted = <<>>
    /\ run = "idle"
    /\ raised_at = 0
    /\ should_stop = FALSE
    /\ confirm_each_session = FALSE
    /\ chunk_size = 0
    /\ log_exists = FALSE
    /\ prompt_exists = FALSE
    /\ analysing = 0
    /\ started = <<>>
    /\ stop_at = 0

AnalysisIdle ==
    /\ entry = "none"
    /\ chunk_text = <<>>
    /\ stdout = NoOutput
    /\ parsed = NoTriple
    /\ analysis = NoAnalysis
    /\ apc = "idle"

LoadIdle ==
    /\ lines = <<>>
    /\ inactivity_window = DEFAULT_INACTIVITY_WINDOW
    /\ records = <<>>
    /\ cursor = 0
    /\ sessions = <<>>
    /\ active_sessions = [k \in Keys |-> 0]
    /\ counters = [k \in Keys |-> 0]
    /\ stats = NoStats
    /\ pc = "idle"
    /\ calls = 0

\* entry of analyze_logs_ollama_chunk, or of _enrich_analysis called directly
InitAnalysis ==
    /\ LoadIdle
    /\ RunIdle
    /\ WindowIdle
    /\ stdout = NoOutput
    /\ analysis = NoAnalysis
    /\ \/ /\ entry = "analyze"
          /\ chunk_text \in AnalyzeChunks
          /\ parsed = NoTriple
          /\ apc = "call"
       \/ /\ entry = "enrich"
          /\ chunk_text \in EnrichChunks
          /\ \E note \in EnrichNotes, evidence \in EnrichEvidence(chunk_text) :
                parsed = Triple(None, note, evidence)
          /\ apc = "parsed"

\* lines 46-58: the executable is missing or exits with a nonzero code
BackendFails ==
    /\ apc = "call"
    /\ apc' = "runtime_error"
    /\ UNCHANGED <<entry, chunk_text, stdout, parsed, analysis>>
    /\ UNCHANGED <<loadVars, runVars, winVars>>

\* lines 46-60: the process exits with code 0, having printed some text
BackendReturns ==
    /\ apc = "call"
    /\ \E out \in Outputs(chunk_text) : stdout' = out
    /\ apc' = "returned"
    /\ UNCHANGED <<entry, chunk_text, parsed, analysis>>
    /\ UNCHANGED <<loadVars, runVars, winVars>>

\* line 61: _parse_analysis_output(raw_output); an exception leaves the function
ParseOutput ==
    /\ apc = "returned"
    /\ LET result == parse_analysis_output(stdout)
       IN  /\ parsed' = IF result.raised THEN parsed ELSE result
           /\ apc' = IF result.raised THEN "raised" ELSE "parsed"
    /\ UNCHANGED <<entry, chunk_text, stdout, analysis>>
    /\ UNCHANGED <<loadVars, runVars, winVars>>

\* lines 62-72: _enrich_analysis and the SessionAnalysis returned
Enrich ==
    /\ apc = "parsed"
    /\ LET enriched == enrich_analysis(parsed.note, parsed.evidence, chunk_text)
       IN  analysis' = [anomaly_score |-> parsed.score,
                        analyst_note |-> enriched.note,
                        evidence |-> enriched.evidence,
                        raw_response |-> stdout]
    /\ apc' = "analysed"
    /\ UNCHANGED <<entry, chunk_text, stdout, parsed>>
    /\ UNCHANGED <<loadVars, runVars, winVars>>

NextAnalysis == BackendFails \/ BackendReturns \/ ParseOutput \/ Enrich

SpecAnalysis == InitAnalysis /\ [][NextAnalysis]_vars

(***************************************************************************)
(* The loops over sessions: cli.py, api.py, gui/main_window.py             *)
(***************************************************************************)
MaxSessions == 3

Callers == {"cli", "api", "gui"}

\* --chunk-size / ParseRequest.chunk_size / the spin box: 50 is the default
ChunkSizes == {-1, 0, 1, 50}

\* build_session_chunk: size = max(1, chunk_size)
ChunkLimit(size) == IF size >= 1 THEN size ELSE 1

\* one call of analyze_logs_ollama_chunk with the chunk of a session
Invocation(session) == [session |-> session, size |-> ChunkLimit(chunk_size)]

\* what a caller holds for one session: the analysis of the backend, or the
\* degraded one ("Analysis unavailable: ...") put in its place
Report(session, degraded) == [session |-> session, degraded |-> degraded]

\* entry of _handle_parse_command, parse_logs or AnalysisWorker.run; a log
\* that exists groups into total_sessions sessions
InitCallers ==
    /\ LoadIdle
    /\ AnalysisIdle
    /\ WindowIdle
    /\ caller \in Callers
    /\ chunk_size \in ChunkSizes
    /\ log_exists \in BOOLEAN
    /\ prompt_exists \in BOOLEAN
    /\ total_sessions \in (IF log_exists THEN 0..MaxSessions ELSE {0})
    /\ index = 1
    /\ analysing = 0
    /\ started = <<>>
    /\ collected = <<>>
    /\ emitted = <<>>
    /\ run = "start"
    /\ raised_at = 0
    /\ should_stop = FALSE
    /\ stop_at = 0
    /\ confirm_each_session \in (IF caller = "cli" THEN BOOLEAN ELSE {FALSE})

\* cli.py lines 113-136: FileNotFoundError for a missing log or prompt;
\* args.chunk_size is not looked at; "No sessions found in log." ends the
\* command
CliBegin ==
    /\ caller = "cli"
    /\ run = "start"
    /\ run' = IF ~ log_exists \/ ~ prompt_exists THEN "rejected"
              ELSE IF total_sessions = 0 THEN "finished" ELSE "loop"
    /\ UNCHANGED <<configVars, index, analysing, started, collected, emitted,
                   raised_at, should_stop, stop_at>>
    /\ UNCHANGED <<loadVars, aiVars, winVars>>

\* cli.py lines 138-166: one iteration; the call of analyze_logs_ollama_chunk
\* stands outside any try, so its RuntimeError leaves _handle_parse_command;
\* the prompt comes once the session is analysed
CliSession ==
    /\ caller = "cli"
    /\ run = "loop"
    /\ index <= total_sessions
    /\ ~ should_stop
    /\ started' = Append(started, Invocation(index))
    /\ \/ /\ run' = "aborted"
          /\ raised_at' = index
          /\ UNCHANGED <<index, collected, should_stop, stop_at>>
       \/ /\ collected' = Append(collected, Report(index, FALSE))
          /\ index' = index + 1
          /\ \E answer \in BOOLEAN :
                /\ should_stop' = (confirm_each_session /\ ~ answer)
                /\ stop_at' = IF confirm_each_session /\ ~ answer THEN index ELSE 0
          /\ UNCHANGED <<run, raised_at>>
    /\ UNCHANGED <<configVars, analysing, emitted>>
    /\ UNCHANGED <<loadVars, aiVars, winVars>>

\* cli.py lines 168-183: the reports are printed once the loop is over
CliPrint ==
    /\ caller = "cli"
    /\ run = "loop"
    /\ index > total_sessions \/ should_stop
    /\ emitted' = collected
    /\ run' = "finished"
    /\ UNCHANGED <<configVars, index, analysing, started, collected, raised_at,
                   should_stop, stop_at>>
    /\ UNCHANGED <<loadVars, aiVars, winVars>>

\* api.py lines 53-75: 404 for a missing log, 400 for chunk_size <= 0, 404
\* for a missing prompt; no session, an empty response
ApiBegin ==
    /\ caller = "api"
    /\ run = "start"
    /\ run' = IF ~ log_exists \/ chunk_size <= 0 \/ ~ prompt_exists THEN "rejected"
              ELSE IF total_sessions = 0 THEN "finished" ELSE "loop"
    /\ UNCHANGED <<configVars, index, analysing, started, collected, emitted,
                   raised_at, should_stop, stop_at>>
    /\ UNCHANGED <<loadVars, aiVars, winVars>>

\* api.py lines 77-96: one iteration; an exception of _analyzer leaves
\* parse_logs and the request fails
ApiSession ==
    /\ caller = "api"
    /\ run = "loop"
    /\ index <= total_sessions
    /\ started' = Append(started, Invocation(index))
    /\ \/ /\ run' = "aborted"
          /\ raised_at' = index
          /\ UNCHANGED <<index, collected>>
       \/ /\ collected' = Append(collected, Report(index, FALSE))
          /\ index' = index + 1
          /\ UNCHANGED <<run, raised_at>>
    /\ UNCHANGED <<configVars, analysing, emitted, should_stop, stop_at>>
    /\ UNCHANGED <<loadVars, aiVars, winVars>>

\* api.py line 98: the response carries the collected payloads
ApiRespond ==
    /\ caller = "api"
    /\ run = "loop"
    /\ index > total_sessions
    /\ emitted' = collected
    /\ run' = "finished"
    /\ UNCHANGED <<configVars, index, analysing, started, collected, raised_at,
                   should_stop, stop_at>>
    /\ UNCHANGED <<loadVars, aiVars, winVars>>

\* main_window.py lines 86 and 94-113: the worker keeps max(1, chunk_size);
\* a missing log or prompt, and a log without sessions, are errors of the run
GuiBegin ==
    /\ caller = "gui"
    /\ run = "start"
    /\ run' = IF ~ log_exists \/ ~ prompt_exists THEN "rejected"
              ELSE IF total_sessions = 0 THEN "no_sessions" ELSE "loop"
    /\ UNCHANGED <<configVars, index, analysing, started, collected, emitted,
                   raised_at, should_stop, stop_at>>
    /\ UNCHANGED <<loadVars, aiVars, winVars>>

\* mutant: the loop does not look at _should_stop
GuiSessionStart_IgnoresStop ==
    /\ caller = "gui"
    /\ run = "loop"
    /\ analysing = 0
    /\ index <= total_sessions
    /\ analysing' = index
    /\ started' = Append(started, Invocation(index))
    /\ UNCHANGED <<configVars, index, collected, emitted, run, raised_at,
                   should_stop, stop_at>>
    /\ UNCHANGED <<loadVars, aiVars, winVars>>

\* main_window.py lines 116-122 and 150-157: the top of an iteration, up to
\* the call of analyze_logs_ollama_chunk in _process_session
GuiSessionStart ==
    /\ caller = "gui"
    /\ run = "loop"
    /\ analysing = 0
    /\ index <= total_sessions
    /\ ~ should_stop
    /\ analysing' = index
    /\ started' = Append(started, Invocation(index))
    /\ UNCHANGED <<configVars, index, collected, emitted, run, raised_at,
                   should_stop, stop_at>>
    /\ UNCHANGED <<loadVars, aiVars, winVars>>

\* main_window.py lines 123 and 158-181: the call returns or raises; an
\* exception is caught, a degraded analysis takes its place, and
\* session_ready is emitted
GuiSessionDone ==
    /\ caller = "gui"
    /\ run = "loop"
    /\ analysing # 0
    /\ \E failed \in BOOLEAN : emitted' = Append(emitted, Report(analysing, failed))
    /\ index' = index + 1
    /\ analysing' = 0
    /\ UNCHANGED <<configVars, started, collected, run, raised_at,
                   should_stop, stop_at>>
    /\ UNCHANGED <<loadVars, aiVars, winVars>>

\* main_window.py lines 134-135: request_stop, called from the window's
\* thread while the worker is in its loop
GuiRequestStop ==
    /\ caller = "gui"
    /\ run = "loop"
    /\ ~ should_stop
    /\ should_stop' = TRUE
    /\ stop_at' = analysing
    /\ UNCHANGED <<configVars, index, analysing, started, collected, emitted,
                   run, raised_at>>
    /\ UNCHANGED <<loadVars, aiVars, winVars>>

\* main_window.py lines 125-132: the loop is over, or was asked to stop
GuiFinish ==
    /\ caller = "gui"
    /\ run = "loop"
    /\ analysing = 0
    /\ index > total_sessions \/ should_stop
    /\ run' = "finished"
    /\ UNCHANGED <<configVars, index, analysing, started, collected, emitted,
                   raised_at, should_stop, stop_at>>
    /\ UNCHANGED <<loadVars, aiVars, winVars>>

NextCallers ==
    \/ CliBegin \/ CliSession \/ CliPrint
    \/ ApiBegin \/ ApiSession \/ ApiRespond
    \/ GuiBegin \/ GuiSessionStart \/ GuiSessionDone \/ GuiRequestStop \/ GuiFinish

SpecCallers == InitCallers /\ [][NextCallers]_vars

(***************************************************************************)
(* The main window and its workers: gui/main_window.py                     *)
(*                                                                         *)
(* A worker lives in its own QThread; its signals are connected to slots   *)
(* of the window (lines 925-931), so an emission is queued for the         *)
(* window's thread and the slot runs when the window's event loop takes    *)
(* it.  A slot of the window runs to its end before the next event is      *)
(* taken; QThread.wait() blocks it until the worker's run() has returned.  *)
(***************************************************************************)
SessionReady(w, session) == [signal |-> "session_ready", worker |-> w, session |-> session]
Finished(w) == [signal |-> "finished", worker |-> w, session |-> 0]

\* the workers created so far are 1..Born
Born == Cardinality({w \in 1..MaxWorkers : workers[w].state # "unborn"})

\* AnalysisWorker.run from where worker w stands to its return (lines
\* 116-132): the signals it emits.  With _should_stop set only the session
\* in flight is finished.
Drain(w, rec) ==
    IF rec.state # "running" THEN <<>>
    ELSE LET first == IF rec.analysing # 0 THEN rec.analysing ELSE rec.index
             last == IF rec.should_stop
                     THEN (IF rec.analysing # 0 THEN rec.analysing ELSE first - 1)
                     ELSE rec.total
         IN  [i \in 1..(last - first + 1) |-> SessionReady(w, first + i - 1)]
                 \o <<Finished(w)>>

\* worker.request_stop() (lines 952-953)
Stopped(ws, w) == IF w = 0 THEN ws ELSE [ws EXCEPT ![w].should_stop = TRUE]

\* the worker of thread t once thread.quit(); thread.wait() has returned
AfterWait(ws, t) ==
    IF t = 0 \/ ws[t].state # "running" THEN ws
    ELSE [ws EXCEPT ![t].state = "returned", ![t].analysing = 0]

InitWindow ==
    /\ LoadIdle
    /\ AnalysisIdle
    /\ RunIdle
    /\ WindowIdle

\* _finalise_log_selection (lines 882-898) with _start_worker (900-933) and
\* the _stop_worker it calls (951-960): the list is cleared, the previous
\* worker is asked to stop and its thread is joined, the new worker starts
FinaliseLogSelection ==
    /\ Born < MaxWorkers
    /\ \E total \in 1..MaxSessions :
          LET new == Born + 1
              stopped == Stopped(workers, worker)
              signals == IF thread # 0 THEN Drain(thread, stopped[thread]) ELSE <<>>
              joined == AfterWait(stopped, thread)
          IN  /\ processed_sessions' = <<>>
              /\ events' = events \o signals
              /\ workers' = [joined EXCEPT ![new] =
                                [state |-> "running", should_stop |-> FALSE, index |-> 1,
                                 analysing |-> 0, total |-> total]]
              /\ worker' = new
              /\ thread' = new
    /\ UNCHANGED teardowns
    /\ UNCHANGED <<loadVars, aiVars, runVars>>

\* _stop_worker as the slot of the stop button (lines 621, 951-960)
StopWorker ==
    /\ worker # 0
    /\ LET stopped == Stopped(workers, worker)
       IN  /\ events' = events \o (IF thread # 0 THEN Drain(thread, stopped[thread]) ELSE <<>>)
           /\ workers' = AfterWait(stopped, thread)
    /\ worker' = 0
    /\ thread' = 0
    /\ UNCHANGED <<processed_sessions, teardowns>>
    /\ UNCHANGED <<loadVars, aiVars, runVars>>

\* AnalysisWorker.run, lines 116-122: the top of an iteration of worker w
WorkerSessionStart(w) ==
    /\ workers[w].state = "running"
    /\ workers[w].analysing = 0
    /\ workers[w].index <= workers[w].total
    /\ ~ workers[w].should_stop
    /\ workers' = [workers EXCEPT ![w].analysing = workers[w].index]
    /\ UNCHANGED <<worker, thread, processed_sessions, events, teardowns>>
    /\ UNCHANGED <<loadVars, aiVars, runVars>>

\* AnalysisWorker.run, line 123: session_ready.emit(_process_session(...))
WorkerSessionDone(w) ==
    /\ workers[w].state = "running"
    /\ workers[w].analysing # 0
    /\ events' = Append(events, SessionReady(w, workers[w].analysing))
    /\ workers' = [workers EXCEPT ![w].analysing = 0, ![w].index = workers[w].index + 1]
    /\ UNCHANGED <<worker, thread, processed_sessions, teardowns>>
    /\ UNCHANGED <<loadVars, aiVars, runVars>>

\* AnalysisWorker.run, lines 125-132: the loop is left and finished is emitted
WorkerFinish(w) ==
    /\ workers[w].state = "running"
    /\ workers[w].analysing = 0
    /\ workers[w].index > workers[w].total \/ workers[w].should_stop
    /\ events' = Append(events, Finished(w))
    /\ workers' = [workers EXCEPT ![w].state = "returned"]
    /\ UNCHANGED <<worker, thread, processed_sessions, teardowns>>
    /\ UNCHANGED <<loadVars, aiVars, runVars>>

\* _add_processed_session (lines 967-974), the slot of session_ready: the
\* result joins the list whichever worker sent it
AddProcessedSession ==
    /\ events # <<>>
    /\ Head(events).signal = "session_ready"
    /\ processed_sessions' =
          Append(processed_sessions,
                 [worker |-> Head(events).worker, session |-> Head(events).session])
    /\ events' = Tail(events)
    /\ UNCHANGED <<worker, thread, workers, teardowns>>
    /\ UNCHANGED <<loadVars, aiVars, runVars>>

\* _on_worker_finished (lines 939-946), the slot of finished: the thread the
\* window holds is quit and joined and both references are cleared,
\* whichever worker sent the signal
OnWorkerFinished ==
    /\ events # <<>>
    /\ Head(events).signal = "finished"
    /\ events' = Tail(events) \o (IF thread # 0 THEN Drain(thread, workers[thread]) ELSE <<>>)
    /\ workers' = AfterWait(workers, thread)
    /\ teardowns' =
          IF thread # 0
          THEN teardowns \cup {[of |-> thread, by |-> Head(events).worker,
                                running |-> workers[thread].state = "running"]}
          ELSE teardowns
    /\ thread' = 0
    /\ worker' = 0
    /\ UNCHANGED processed_sessions
    /\ UNCHANGED <<loadVars, aiVars, runVars>>

NextWindow ==
    \/ FinaliseLogSelection
    \/ StopWorker
    \/ \E w \in 1..MaxWorkers :
          WorkerSessionStart(w) \/ WorkerSessionDone(w) \/ WorkerFinish(w)
    \/ AddProcessedSession
    \/ OnWorkerFinished

SpecWindow == InitWindow /\ [][NextWindow]_vars

(***************************************************************************)
(* load_sessions as a state machine                                        *)
(***************************************************************************)
Init ==
    /\ lines \in SeqsUpTo(Lines, MaxLines)
    /\ inactivity_window \in Windows
    /\ records = <<>>
    /\ cursor = 0
    /\ sessions = <<>>
    /\ active_sessions = [k \in Keys |-> 0]
    /\ counters = [k \in Keys |-> 0]
    /\ stats = NoStats
    /\ pc = "read"
    /\ calls = 0
    /\ AnalysisIdle
    /\ RunIdle
    /\ WindowIdle

\* mutant: the counters outlive the call (module-level state)
FreshCounters_Kept == counters

\* counters: Dict[...] = defaultdict(int), a local of each call (line 154)
FreshCounters == [k \in Keys |-> 0]

\* lines 147-154: read, parse, drop, sort, and the empty builder state; the
\* function is entered for the first time, or again once an earlier call
\* on the file has returned or raised
LoadBegin ==
    /\ pc \in {"read", "summarized", "raised"}
    /\ calls < MaxCalls
    /\ calls' = calls + 1
    /\ IF ParseRaises(lines)
       THEN /\ pc' = "raised"
            /\ records' = <<>>
            /\ cursor' = 0
       ELSE /\ records' = SortByTimestamp(ParseLines(lines, 1))
            /\ cursor' = 1
            /\ pc' = IF records' = <<>> THEN "done" ELSE "loop"
    /\ sessions' = <<>>
    /\ active_sessions' = [k \in Keys |-> 0]
    /\ counters' = FreshCounters
    /\ stats' = NoStats
    /\ UNCHANGED <<lines, inactivity_window>>
    /\ UNCHANGED <<aiVars, runVars, winVars>>

\* one iteration of `for record in records` (lines 156-174)
ProcessRecord ==
    /\ pc = "loop"
    /\ cursor <= Len(records)
    /\ LET record == records[cursor]
           key == Key(record)
           start_new == StartNew(record)
           n == counters[key] + 1
           opened == IF start_new THEN Append(sessions, NewSession(record, n)) ELSE sessions
           target == IF start_new THEN Len(opened) ELSE Existing(key)
       IN  /\ counters' = IF start_new THEN [counters EXCEPT ![key] = n] ELSE counters
           /\ sessions' = [opened EXCEPT ![target].records = Append(@, record)]
           /\ active_sessions' = [active_sessions EXCEPT ![key] = target]
    /\ cursor' = cursor + 1
    /\ pc' = IF cursor = Len(records) THEN "done" ELSE "loop"
    /\ UNCHANGED <<lines, inactivity_window, records, stats, calls>>
    /\ UNCHANGED <<aiVars, runVars, winVars>>

\* summarize_sessions over the returned list (the callers do this next)
Summarize ==
    /\ pc = "done"
    /\ stats' = summarize_sessions(sessions)
    /\ pc' = "summarized"
    /\ UNCHANGED <<lines, inactivity_window, records, cursor, sessions,
                   active_sessions, counters, calls>>
    /\ UNCHANGED <<aiVars, runVars, winVars>>

Next == LoadBegin \/ ProcessRecord \/ Summarize

Spec == Init /\ [][Next]_vars

(***************************************************************************)
(* Properties of load_sessions and summarize_sessions (checked under Spec) *)
(***************************************************************************)
Returned == pc \in {"done", "summarized"}

\* the well-formed lines of the file, as records, in file order
ParsedSet == {parse_log_line(lines[i], i) : i \in {k \in 1..Len(lines) : lines[k].kind = "ok"}}

InSession(s, r) == \E j \in 1..Len(s.records) : s.records[j] = r

\* r1 and r2 belong to one key and no record of that key lies strictly between
ConsecutiveOfKey(r1, r2) ==
    /\ r1 # r2
    /\ Key(r1) = Key(r2)
    /\ r1.timestamp <= r2.timestamp
    /\ ~ \E r3 \in ParsedSet :
            Key(r3) = Key(r1) /\ r1.timestamp < r3.timestamp /\ r3.timestamp < r2.timestamp

IdWithCounter(r, n) ==
    r.ip \o "-" \o (IF r.user = "" THEN "anon" ELSE r.user) \o "-" \o ToString(n)

SameSession(r1, r2) ==
    \E i \in 1..Len(sessions) : InSession(sessions[i], r1) /\ InSession(sessions[i], r2)

NextSession(r1, r2) ==
    \E i, j, n \in 1..Len(sessions) :
        /\ i # j
        /\ InSession(sessions[i], r1)
        /\ InSession(sessions[j], r2)
        /\ Start(sessions[j]) = r2.timestamp
        /\ sessions[i].session_id = IdWithCounter(r1, n)
        /\ sessions[j].session_id = IdWithCounter(r1, n + 1)

TestLine(t) == [kind |-> "ok", ip |-> "10.0.0.1", user |-> "-", time |-> t,
                method |-> "GET", status |-> 200]

\* C1: consecutive records of one key stay in one session when their gap is
\* at most the inactivity window (equality included) and are split, the later
\* one opening the key's next session (counter one higher), when the gap is
\* larger; the records at 09:00:01, 09:05:01, 09:25:02 with a 10-minute window
\* give exactly two sessions, split at the third record.
C1_WindowGrouping ==
    Returned =>
        /\ \A r1, r2 \in ParsedSet :
              ConsecutiveOfKey(r1, r2) =>
                 IF r2.timestamp - r1.timestamp <= inactivity_window
                 THEN SameSession(r1, r2)
                 ELSE NextSession(r1, r2)
        /\ (lines = <<TestLine(1), TestLine(301), TestLine(1502)>>
              /\ inactivity_window = TEST_INACTIVITY_WINDOW)
           => /\ Len(sessions) = 2
              /\ [j \in 1..2 |-> sessions[1].records[j].lineno] = <<1, 2>>
              /\ [j \in 1..1 |-> sessions[2].records[j].lineno] = <<3>>

C1_Witness ==
    /\ pc = "done"
    /\ \E r1, r2 \in ParsedSet :
          /\ ConsecutiveOfKey(r1, r2)
          /\ r2.timestamp - r1.timestamp = inactivity_window
          /\ SameSession(r1, r2)
    /\ \E r1, r2 \in ParsedSet :
          /\ ConsecutiveOfKey(r1, r2)
          /\ r2.timestamp - r1.timestamp > inactivity_window
          /\ NextSession(r1, r2)

\* C2: in every session, at every point of the construction and in the
\* returned list, the records are in non-decreasing timestamp order.
C2_RecordsNonDecreasing ==
    \A i \in 1..Len(sessions) :
        \A j \in 1..Len(sessions[i].records) - 1 :
            sessions[i].records[j].timestamp <= sessions[i].records[j + 1].timestamp

\* a file whose lines are not in time order, two of them grouped in one session
C2_Witness ==
    /\ pc = "done"
    /\ \E i \in 1..Len(sessions) :
          \E j \in 1..Len(sessions[i].records) - 1 :
              /\ sessions[i].records[j].lineno > sessions[i].records[j + 1].lineno
              /\ sessions[i].records[j].timestamp < sessions[i].records[j + 1].timestamp

RECURSIVE SumOver(_, _)
\* the sum of f[x] over the finite set S
SumOver(S, f) ==
    IF S = {} THEN 0
    ELSE LET x == CHOOSE y \in S : TRUE IN f[x] + SumOver(S \ {x}, f)

SessionIdx == 1..Len(sessions)
DurationOf == [i \in SessionIdx |-> Duration(sessions[i])]
NonZeroSessions == {i \in SessionIdx : DurationOf[i] # 0}
SingleRecordSessions == {i \in SessionIdx : Len(sessions[i].records) = 1}
Mean == stats.mean_session_duration

\* C8 as stated: the mean is taken over all sessions, a single-record session
\* counting in the denominator.
C8_MeanOverAllSessions ==
    pc = "summarized" =>
        Mean.num * Cardinality(SessionIdx) = Mean.den * SumOver(SessionIdx, DurationOf)

\* C8 as amended: a single-record session has duration 0 and is left out of
\* the denominator; the mean is the total duration divided by the number of
\* sessions that are not of zero duration.
C8_ZeroDurationLeftOut ==
    pc = "summarized" =>
        /\ \A i \in SingleRecordSessions : DurationOf[i] = 0
        /\ Mean.num * (Cardinality(SessionIdx) - Cardinality(SessionIdx \ NonZeroSessions))
              = Mean.den * SumOver(SessionIdx, DurationOf)
        /\ Mean.den >= 1

\* one session of non-zero duration next to a single-record session
C8_Witness ==
    /\ pc = "summarized"
    /\ NonZeroSessions # {}
    /\ SingleRecordSessions # {}

\* C9: mean_session_duration is the arithmetic mean of the non-zero session
\* durations (a 120 s session and a single-record session give 120) and 0
\* when no session has a non-zero duration, in particular without sessions.
C9_MeanOfNonZeroDurations ==
    pc = "summarized" =>
        /\ NonZeroSessions = {} => Mean.num = 0 /\ Mean.den = 1
        /\ NonZeroSessions # {} =>
              /\ Mean.den # 0
              /\ Mean.num * Cardinality(NonZeroSessions)
                    = Mean.den * SumOver(NonZeroSessions, DurationOf)
        /\ ({DurationOf[i] : i \in SessionIdx} = {0, 120} /\ Cardinality(SessionIdx) = 2)
              => Mean.num = 120 * Mean.den

C9_Witness ==
    /\ pc = "summarized"
    /\ Cardinality(SessionIdx) = 2
    /\ \E i, j \in SessionIdx :
          /\ DurationOf[i] = 120
          /\ Len(sessions[j].records) = 1
    /\ Mean.num = 120 * Mean.den

(***************************************************************************)
(* Properties of the analysis (checked under SpecAnalysis)                 *)
(***************************************************************************)
Analysed == entry = "analyze" /\ apc = "analysed"

\* C3: _parse_analysis_output is total: whatever the backend printed, it
\* returns a triple and no exception leaves it.
C3_ParseNeverRaises == apc # "raised"

IsErrorLine(t) == t \in LogLines /\ EntryOf[t].status >= 400
HasErrorLine(chunk) == \E i \in 1..Len(chunk) : IsErrorLine(chunk[i])

\* the evidence of the response is missing, blank, or the chunk echoed back
ModelEvidenceUseless ==
    \/ parsed.evidence = NoEvidence
    \/ StripItems(parsed.evidence.items) \in {<<>>, <<normalise_logs(chunk_text)>>}

\* C4 (as stated): every session whose backend call returns ends with a
\* score, a note and evidence: anomaly_score is not null, analyst_note is
\* non-empty and evidence is not absent.
C4_ScoreNoteEvidencePresent ==
    Analysed =>
        /\ analysis.anomaly_score # None
        /\ analysis.analyst_note # <<>>
        /\ analysis.evidence # NoEvidence

\* C4 (amended): every session whose backend call returns ends with a
\* non-empty note; the score is whatever the response yielded (null for an
\* empty response), and the evidence is absent only if the response gave no
\* usable evidence and the chunk holds no error response.
C4_NotePresentScoreEvidenceOptional ==
    Analysed =>
        /\ analysis.analyst_note # <<>>
        /\ analysis.anomaly_score = parsed.score
        /\ (Strip(stdout.text) = <<>> => analysis.anomaly_score = None)
        /\ (analysis.evidence = NoEvidence =>
                ModelEvidenceUseless /\ ~ HasErrorLine(chunk_text))

\* an empty response for a chunk of one routine request: no score, no evidence
C4_Witness ==
    /\ Analysed
    /\ Strip(stdout.text) = <<>>
    /\ chunk_text = <<LINE_GET_INDEX>>
    /\ analysis.anomaly_score = None
    /\ analysis.evidence = NoEvidence
    /\ analysis.analyst_note # <<>>

\* C5: the note produced by _parse_analysis_output followed by
\* _enrich_analysis is a non-empty string, for every response and chunk.
C5_NoteNonEmpty == Analysed => Strip(analysis.analyst_note) # <<>>

\* a response without a note for a chunk without requests: the placeholder stands
C5_Witness ==
    /\ Analysed
    /\ parsed.note = <<PLACEHOLDER_NOTE>>
    /\ parse_log_entries(chunk_text) = <<>>
    /\ analysis.analyst_note = <<PLACEHOLDER_NOTE>>

EchoesChunk(evidence) ==
    evidence \in {EvidenceStr(chunk_text), EvidenceList(<<chunk_text>>)}

\* the evidence _analyse_log_chunk derives, as _enrich_analysis returns it
DerivedFrom(chunk) ==
    LET derived == analyse_log_chunk(chunk).evidence
    IN  IF derived # <<>> THEN EvidenceList([i \in 1..Len(derived) |-> <<derived[i]>>])
        ELSE NoEvidence

\* C6: evidence that is verbatim the chunk text (one string or a one-element
\* list) is never returned by _enrich_analysis: the evidence derived from
\* the chunk replaces it, also for chunks with CRLF line endings, blank
\* lines or padded lines.
C6_EchoedChunkReplaced ==
    (apc = "analysed" /\ entry = "enrich" /\ EchoesChunk(parsed.evidence)) =>
        /\ ~ EchoesChunk(analysis.evidence)
        /\ analysis.evidence = DerivedFrom(chunk_text)

ScoreField(value) == stdout = JsonOutput(Obj(value, JStr(NOTE_LOGIN), Absent))
\* the response carried anomaly_score = value and _safe_float gave result
Coerces(value, result) ==
    (entry = "analyze" /\ apc \in {"parsed", "analysed"} /\ ScoreField(value)) =>
        parsed.score = result

\* C10 (as stated): coerce("75%") = 0.75, coerce(150) = 1.0, coerce(-5) = 0.0,
\* coerce("429 status") = null, coerce(0.42) = 0.42.
C10_CoercionExamplesAsStated ==
    /\ Coerces(JStr(<<"75", "%">>), Fin(7500))
    /\ Coerces(JNum("150"), Fin(ONE))
    /\ Coerces(JNum("-5"), Fin(0))
    /\ Coerces(JStr(<<"429", SP, "status">>), None)
    /\ Coerces(JNum("0.42"), Fin(4200))

\* C10 (amended): coerce("75%") = 0.75, coerce(150) = null (above 100 and not
\* marked as a percentage), coerce("150%") = 1.0, coerce(-5) = 0.0,
\* coerce("429 status") = null, coerce(0.42) = 0.42.
C10_CoercionExamples ==
    /\ Coerces(JStr(<<"75", "%">>), Fin(7500))
    /\ Coerces(JNum("150"), None)
    /\ Coerces(JStr(<<"150", "%">>), Fin(ONE))
    /\ Coerces(JNum("-5"), Fin(0))
    /\ Coerces(JStr(<<"429", SP, "status">>), None)
    /\ Coerces(JNum("0.42"), Fin(4200))

\* the response carried anomaly_score = 150 and the score came out null
C10_Witness ==
    /\ entry = "analyze"
    /\ apc = "parsed"
    /\ ScoreField(JNum("150"))
    /\ parsed.score = None

(***************************************************************************)
(* Properties of the caller loops (checked under SpecCallers)              *)
(***************************************************************************)
\* the sessions whose backend call failed
FailedSessions ==
    ({raised_at} \ {0}) \cup {emitted[i].session : i \in {j \in 1..Len(emitted) : emitted[j].degraded}}

Reported(session) == \E i \in 1..Len(emitted) : emitted[i].session = session

\* C7: a backend failure of one session never aborts the run: in each of the
\* three loops, once the run is over (and nobody asked it to stop), every
\* session after a failed one has been analysed and reported.
C7_FailureNeverAborts ==
    (run \in {"finished", "aborted"} /\ ~ should_stop) =>
        \A k \in FailedSessions : \A j \in (k + 1)..total_sessions : Reported(j)

(***************************************************************************)
(* Further properties of the analysis (checked under SpecAnalysis)         *)
(***************************************************************************)
\* _parse_analysis_output returned, so the score went through _safe_float
Scored == entry = "analyze" /\ apc \in {"parsed", "analysed"}

\* C11: _safe_float follows the coercion rules for every numeric or string
\* input (negative to 0, above 1 and up to 100 divided by 100, above 100
\* rejected, percent-marked divided by 100 and clamped), so that every
\* result that is not null lies in [0, 1].
C11_ScoreInUnitInterval ==
    Scored =>
        \/ parsed.score = None
        \/ parsed.score.k = "fin" /\ 0 <= parsed.score.v /\ parsed.score.v <= ONE

\* the evidence as _enrich_analysis hands it back when it keeps it: a list
\* loses its blank items and the padding of the others, a string is untouched
Kept(evidence) ==
    IF evidence.k = "list" THEN EvidenceList(StripItems(evidence.items)) ELSE evidence

\* C12: only the failing half is replaced: an informative note is returned
\* as it came whatever the evidence is, and informative evidence is
\* returned as it came (its non-empty trimmed items) whatever the note is.
C12_HalvesIndependent ==
    apc = "analysed" =>
        /\ (note_is_informative(parsed.note) => analysis.analyst_note = parsed.note)
        /\ (evidence_is_informative(parsed.evidence, chunk_text) =>
                analysis.evidence = Kept(parsed.evidence))

\* an informative note with no evidence, for a chunk that has an error
\* response: the note stays, the evidence is derived
C12_Witness ==
    /\ apc = "analysed"
    /\ entry = "enrich"
    /\ parsed.note = NOTE_LOGIN
    /\ parsed.evidence = NoEvidence
    /\ HasErrorLine(chunk_text)
    /\ analysis.analyst_note = NOTE_LOGIN
    /\ analysis.evidence = DerivedFrom(chunk_text)
    /\ analysis.evidence # NoEvidence

\* the number of lines of the chunk that are error responses
ErrorLines(chunk) == Cardinality({i \in 1..Len(chunk) : IsErrorLine(chunk[i])})

ThreeErrorsOneLogin(chunk) ==
    /\ ErrorLines(chunk) = 3
    /\ \E i \in 1..Len(chunk) : chunk[i] = LINE_POST_LOGIN

\* a line of the note reports three error responses
MentionsThreeErrors(note, chunk) ==
    \E i \in 1..Len(note) :
        note[i] = "Detected 3 error responses ("
                    \o JoinStr(ErrorFragments(parse_log_entries(chunk)), "; ") \o ")."

\* an evidence item is the fragment of the failed POST /login
ReferencesLogin(evidence) ==
    /\ evidence.k = "list"
    /\ \E i \in 1..Len(evidence.items), c \in 1..3 :
            evidence.items[i] = <<ToString(c) \o "x POST /login -> 401">>

\* C13: for a chunk with exactly three error responses, one of them a
\* POST /login answered 401, and a note and evidence that are both
\* unhelpful, the note of _enrich_analysis mentions the 3 error responses
\* and its evidence holds a fragment that references /login.
C13_ThreeErrorsReported ==
    (/\ apc = "analysed"
     /\ ThreeErrorsOneLogin(chunk_text)
     /\ ~ note_is_informative(parsed.note)
     /\ ~ evidence_is_informative(parsed.evidence, chunk_text)) =>
        /\ MentionsThreeErrors(analysis.analyst_note, chunk_text)
        /\ ReferencesLogin(analysis.evidence)

\* the placeholder note and no evidence for PUT 400, POST /login 401, GET 404
C13_Witness ==
    /\ apc = "analysed"
    /\ entry = "enrich"
    /\ chunk_text = CHUNK_ERRORS
    /\ parsed.note = <<PLACEHOLDER_NOTE>>
    /\ parsed.evidence = NoEvidence
    /\ MentionsThreeErrors(analysis.analyst_note, chunk_text)
    /\ ReferencesLogin(analysis.evidence)

(***************************************************************************)
(* Further properties of load_sessions and summarize_sessions (under Spec) *)
(***************************************************************************)
SessionKey(s) == <<s.ip, IF s.user = "-" THEN "" ELSE s.user>>

\* C14: the returned list is in the order in which the sessions' first
\* records occur (start(i) <= start(j) for positions i < j); it is not
\* grouped by key: sessions of one key may lie around a session of another.
C14_SessionsInStartOrder ==
    Returned =>
        \A i, j \in 1..Len(sessions) :
            i < j => Start(sessions[i]) <= Start(sessions[j])

\* two sessions of one key with a session of another key between them
C14_Witness ==
    /\ pc = "done"
    /\ \E i, j, k \in 1..Len(sessions) :
          /\ i < j /\ j < k
          /\ SessionKey(sessions[i]) = SessionKey(sessions[k])
          /\ SessionKey(sessions[j]) # SessionKey(sessions[i])
          /\ Start(sessions[i]) < Start(sessions[j])
          /\ Start(sessions[j]) < Start(sessions[k])

\* the records of all returned sessions, one entry per occurrence
Occurrences(r) ==
    Cardinality({p \in {<<i, j>> : i \in 1..Len(sessions), j \in 1..MaxLines} :
                    p[2] <= Len(sessions[p[1]].records)
                        /\ sessions[p[1]].records[p[2]] = r})

\* C15: a malformed line never makes load_sessions fail: whatever mix of
\* well-formed and malformed lines the file holds, it returns, and the
\* records of the returned sessions are exactly the well-formed lines,
\* each in exactly one session, exactly once.
C15_MalformedLinesDropped ==
    /\ pc # "raised"
    /\ Returned =>
          /\ \A r \in ParsedSet : Occurrences(r) = 1
          /\ \A i \in 1..Len(sessions) : \A j \in 1..Len(sessions[i].records) :
                sessions[i].records[j] \in ParsedSet

\* C20 (as stated): within every returned session the records are strictly
\* time-ordered, records[i].timestamp < records[i+1].timestamp, for any
\* file, also one with several lines of a key carrying one timestamp.
C20_RecordsStrictlyOrdered ==
    Returned =>
        \A i \in 1..Len(sessions) :
            \A j \in 1..Len(sessions[i].records) - 1 :
                sessions[i].records[j].timestamp < sessions[i].records[j + 1].timestamp

\* C20 (amended): within every returned session the timestamps never
\* decrease; lines of a key with one timestamp share the session and stand
\* in it in file order.
C20_RecordsOrderedTiesInFileOrder ==
    Returned =>
        \A i \in 1..Len(sessions) :
            \A j \in 1..Len(sessions[i].records) - 1 :
                LET a == sessions[i].records[j]
                    b == sessions[i].records[j + 1]
                IN  \/ a.timestamp < b.timestamp
                    \/ a.timestamp = b.timestamp /\ a.lineno < b.lineno

\* two lines of one key with one timestamp, side by side in one session
C20_Witness ==
    /\ pc = "done"
    /\ \E i \in 1..Len(sessions) :
          \E j \in 1..Len(sessions[i].records) - 1 :
              /\ sessions[i].records[j].timestamp = sessions[i].records[j + 1].timestamp
              /\ sessions[i].records[j].lineno < sessions[i].records[j + 1].lineno

Summarized == pc = "summarized"

\* the records of the returned sessions, as (session, position) pairs
RecordsAt == {p \in SessionIdx \X (1..MaxLines) : p[2] <= Len(sessions[p[1]].records)}
RecordAt(p) == sessions[p[1]].records[p[2]]

\* C18: ip_distribution[ip] is the number of sessions of that address, not
\* the number of its requests; its values sum to the number of sessions.
C18_IpDistributionCountsSessions ==
    Summarized =>
        /\ DOMAIN stats.ip_distribution = {sessions[i].ip : i \in SessionIdx}
        /\ \A ip \in DOMAIN stats.ip_distribution :
              stats.ip_distribution[ip] = Cardinality({i \in SessionIdx : sessions[i].ip = ip})
        /\ SumOver(DOMAIN stats.ip_distribution, stats.ip_distribution) = Len(sessions)

\* an address with one session of two requests is counted once
C18_Witness ==
    /\ Summarized
    /\ \E ip \in DOMAIN stats.ip_distribution :
          /\ stats.ip_distribution[ip] = 1
          /\ Cardinality({p \in RecordsAt : RecordAt(p).ip = ip}) = 2

\* C19: request_counts, status_distribution and request_timeline each
\* count records across all sessions: the values of each sum to the number
\* of records, and every record is counted in the bucket of the whole
\* minute its own timestamp lies in.
C19_CountsCoverAllRecords ==
    Summarized =>
        /\ SumOver(DOMAIN stats.request_counts, stats.request_counts)
              = Cardinality(RecordsAt)
        /\ SumOver(DOMAIN stats.status_distribution, stats.status_distribution)
              = Cardinality(RecordsAt)
        /\ SumOver(DOMAIN stats.request_timeline, stats.request_timeline)
              = Cardinality(RecordsAt)
        /\ \A b \in DOMAIN stats.request_timeline :
              /\ b % 60 = 0
              /\ stats.request_timeline[b] =
                    Cardinality({p \in RecordsAt : /\ b <= RecordAt(p).timestamp
                                                   /\ RecordAt(p).timestamp < b + 60})
        /\ \A p \in RecordsAt :
              \E b \in DOMAIN stats.request_timeline :
                  b <= RecordAt(p).timestamp /\ RecordAt(p).timestamp < b + 60

\* records of two sessions, one second into a minute, share that minute's bucket
C19_Witness ==
    /\ Summarized
    /\ Len(sessions) >= 2
    /\ \E b \in DOMAIN stats.request_timeline :
          /\ stats.request_timeline[b] >= 2
          /\ \E p, q \in RecordsAt :
                /\ p[1] # q[1]
                /\ RecordAt(p).timestamp = b + 1
                /\ RecordAt(q).timestamp = b + 1

InvalidConfiguration == chunk_size <= 0 \/ ~ log_exists

\* C16: in every caller a non-positive chunk size or a missing log file is
\* rejected with a validation error, and the model is invoked for no session.
C16_InvalidConfigurationRejected ==
    InvalidConfiguration =>
        /\ started = <<>>
        /\ run \in {"start", "rejected"}

\* the stop was asked for while session k was being analysed
StoppedDuring(k) == should_stop /\ stop_at = k

\* the results delivered are those of sessions 1..k, in order
DeliveredUpTo(k) ==
    /\ Len(emitted) = k
    /\ \A i \in 1..k : emitted[i].session = i

C17_StopLeavesNothingStarted ==
    \A k \in 1..MaxSessions :
        StoppedDuring(k) =>
            /\ \A i \in 1..Len(started) : started[i].session <= k
            /\ run \in {"loop", "finished"}
            /\ run = "finished" => DeliveredUpTo(k)
            /\ run = "loop" => ENABLED NextCallers

\* once the stop is asked for, a step delivers the result of the session in
\* flight or ends the run
C17_StepAfterStop ==
    \A k \in 1..MaxSessions :
        (StoppedDuring(k) /\ run = "loop") =>
            \/ /\ analysing = k
               /\ analysing' = 0
               /\ run' = "loop"
               /\ Len(emitted') = k
               /\ emitted'[k].session = k
            \/ /\ analysing = 0
               /\ run' = "finished"
               /\ DeliveredUpTo(k)'

\* C17: a stop asked for while session k is analysed (request_stop in the GUI,
\* a negative answer to the prompt in the CLI) lets session k's result be
\* delivered, starts no session after k, and the run then finishes with the
\* results of sessions 1..k.
C17_CooperativeCancellation ==
    [] C17_StopLeavesNothingStarted /\ [][C17_StepAfterStop]_vars

\* the window asked the worker to stop during session 1 of several; the run
\* finished with that session's result alone
C17_Witness ==
    /\ caller = "gui"
    /\ StoppedDuring(1)
    /\ total_sessions > 1
    /\ run = "finished"
    /\ DeliveredUpTo(1)

\* sessions i < j of the list belong to one key
SameKey(ss, i, j) == ss[i].ip = ss[j].ip /\ ss[i].user = ss[j].user

\* session i is not the most recently created session of its key
Superseded(ss, i) == \E j \in (i + 1)..Len(ss) : SameKey(ss, i, j)

\* C21: a step of load_sessions keeps the sessions it has and lets only the
\* most recently created session of a key grow; a session that a newer
\* session of its key has followed never receives another record.
C21_NeverReopened ==
    [][pc = "loop" =>
         /\ Len(sessions') >= Len(sessions)
         /\ \A i \in 1..Len(sessions) :
               /\ sessions'[i].session_id = sessions[i].session_id
               /\ Len(sessions'[i].records) >= Len(sessions[i].records)
               /\ (Superseded(sessions, i) \/ Superseded(sessions', i))
                     => sessions'[i].records = sessions[i].records]_vars

\* a key has two sessions and the newer one has received a second record
C21_Witness ==
    \E i, j \in 1..Len(sessions) :
        /\ i < j
        /\ SameKey(sessions, i, j)
        /\ Len(sessions[j].records) >= 2

\* the number of sessions of session i's key among the first i sessions
RankInKey(i) == Cardinality({j \in 1..i : SameKey(sessions, j, i)})

\* "{ip}-{user or 'anon'}-{n}", from the fields of the session
IdOf(s, n) ==
    s.ip \o "-" \o (IF s.user = "-" THEN "anon" ELSE s.user) \o "-" \o ToString(n)

\* C22: in every call of load_sessions the sessions of a key, in emission
\* order, carry the ids "{ip}-{user or 'anon'}-{n}" with n = 1, 2, 3, ...
\* without gaps or repeats; a later call starts again at 1.
C22_PerKeyCounter ==
    \A i \in 1..Len(sessions) :
        sessions[i].session_id = IdOf(sessions[i], RankInKey(i))

\* a second call on the file has returned two sessions of one key, numbered
\* 1 and 2
C22_Witness ==
    /\ calls = 2
    /\ pc = "done"
    /\ \E i, j \in 1..Len(sessions) :
          /\ i < j
          /\ SameKey(sessions, i, j)
          /\ sessions[i].session_id = IdOf(sessions[i], 1)
          /\ sessions[j].session_id = IdOf(sessions[j], 2)

\* C28: distinct sessions of the list returned by one call of load_sessions
\* have distinct session_id strings, whatever ip and user values occur in
\* the log (a user named "anon" next to requests without a user included).
C28_SessionIdsDistinct ==
    Returned =>
        \A i, j \in 1..Len(sessions) :
            i # j => sessions[i].session_id # sessions[j].session_id

\* the backend printed nothing, or whitespace only
EmptyOutput == stdout.kind = "text" /\ Strip(stdout.text) = <<>>

\* C23: when the backend returns empty or whitespace-only output for a chunk
\* with at least one parseable request, the final analyst note is the
\* narrative derived from the chunk and not a placeholder sentence.
C23_EmptyOutputGivesNarrative ==
    (Analysed /\ EmptyOutput /\ parse_log_entries(chunk_text) # <<>>) =>
        /\ analysis.analyst_note = InsightsNote(analyse_log_chunk(chunk_text).insights)
        /\ analysis.analyst_note \notin {<<PLACEHOLDER_NOTE>>, <<NO_NOTE_RETURNED>>}

\* the response was a JSON object and _parse_analysis_output returned
ParsedJson == entry = "analyze" /\ apc \in {"parsed", "analysed"} /\ stdout.kind = "json"

ResponseEvidence == Get(stdout.data, "evidence")
ResponseNote == Get(stdout.data, "analyst_note")

\* the text supplied for a half of an evidence object: nothing when the key
\* is missing, null, or an empty or blank string
Supplied(obj, key) ==
    IF key \in DOMAIN obj.d /\ obj.d[key].t = "str" THEN Strip(obj.d[key].s) ELSE <<>>

\* C24: for an evidence object with log_excerpt and reason,
\* _normalise_evidence_payload returns the one string "excerpt -- reason" when
\* both halves are supplied, the supplied half alone when the other is
\* missing, null or empty, and nothing when neither is supplied; the result
\* never holds text for a half that was not supplied.
C24_EvidenceObjectCombined ==
    (ParsedJson /\ ResponseEvidence.t = "dict") =>
        LET log_excerpt == Supplied(ResponseEvidence, "log_excerpt")
            reason == Supplied(ResponseEvidence, "reason")
        IN  parsed.evidence =
                IF log_excerpt # <<>> /\ reason # <<>>
                THEN EvidenceList(<<log_excerpt \o <<SP, "--", SP>> \o reason>>)
                ELSE IF log_excerpt # <<>> THEN EvidenceList(<<log_excerpt>>)
                ELSE IF reason # <<>> THEN EvidenceList(<<reason>>)
                ELSE NoEvidence

RECURSIVE Leaves(_)
\* the non-empty entries of a note value, lists flattened, as stripped texts
Leaves(note) ==
    CASE note.t = "list" -> UNION {Leaves(note.items[i]) : i \in 1..Len(note.items)}
      [] note.t = "str" -> IF Strip(note.s) # <<>> THEN {Strip(note.s)} ELSE {}
      [] OTHER -> {}

\* C25: for a list-valued analyst_note, with any nesting and any repeated or
\* empty entries, the lines of the note _normalise_analyst_note returns are
\* pairwise distinct and are non-empty entries of the list.
C25_ListNoteDeduplicated ==
    (ParsedJson /\ ResponseNote.t = "list" /\ Leaves(ResponseNote) # {}) =>
        LET note_lines == SplitLines(parsed.note)
        IN  /\ \A i, j \in 1..Len(note_lines) : i # j => note_lines[i] # note_lines[j]
            /\ \A i \in 1..Len(note_lines) : note_lines[i] \in Leaves(ResponseNote)

\* the note _enrich_analysis is given
GivenNote == parsed.note
NoteJudged == apc \in {"parsed", "analysed"}

RECURSIVE NumberStart(_, _)
\* the position at which the trailing run of digits and dots of s[1..n] starts
NumberStart(s, n) ==
    IF n >= 1 /\ IsDigitsOrDot(s[n]) THEN NumberStart(s, n - 1) ELSE n + 1

\* "score" or "anomaly score", then colons and whitespace only
IsScoreLabel(label) ==
    \E k \in 1..Len(label) :
        /\ label[k] = "score"
        /\ \/ k = 1
           \/ label[1] = "anomaly" /\ \A i \in 2..(k - 1) : IsSpace(label[i])
        /\ \A i \in (k + 1)..Len(label) : label[i] = ":" \/ IsSpace(label[i])

\* an optional score label, a number, an optional "%"
BareScore(s) ==
    LET n == IF s # <<>> /\ s[Len(s)] = "%" THEN Len(s) - 1 ELSE Len(s)
        k == NumberStart(s, n)
    IN  /\ k <= n
        /\ k = 1 \/ IsScoreLabel(SubSeq(s, 1, k - 1))

\* the cases in which a note counts as uninformative
Uninformative(note) ==
    LET lowered == LowerText(Strip(note))
    IN  \/ Strip(note) = <<>>
        \/ \E sentence \in {"no analyst note provided.", "n/a", "none"} : lowered = <<sentence>>
        \/ BareScore(lowered)
        \/ AlnumLenOf(lowered) <= 6

\* C26: _note_is_informative(note) is false exactly when the note is empty or
\* whitespace-only, equals case-insensitively "no analyst note provided.",
\* "n/a" or "none", is a bare score, or has at most 6 alphanumeric
\* characters; for every other note it is true.
C26_InformativeNoteTest ==
    NoteJudged => (note_is_informative(GivenNote) <=> ~ Uninformative(GivenNote))

\* a note of seven alphanumeric characters that is no score and no
\* placeholder is informative and is kept
C26_Witness ==
    /\ apc = "analysed"
    /\ AlnumLenOf(LowerText(Strip(GivenNote))) = 7
    /\ note_is_informative(GivenNote)
    /\ analysis.analyst_note = GivenNote

\* the requests _parse_log_entries finds in the chunk, and what
\* _analyse_log_chunk reports for them
ChunkEntries == parse_log_entries(chunk_text)
ChunkFindings == analyse_log_chunk(chunk_text).insights
FindingRank(kind) ==
    CASE kind = "errors" -> 1
      [] kind = "failed_logins" -> 2
      [] kind = "repeated" -> 3
      [] kind = "writes" -> 4
      [] kind = "routine" -> 5

\* C27: for a chunk with at least one parseable request, _analyse_log_chunk
\* reports routine activity if and only if there is no status >= 400, no
\* path requested 3 or more times and no POST/PUT/DELETE/PATCH request, and
\* it is then the only finding; the other findings appear in the order
\* errors, failed logins, repeated access, write operations.
C27_RoutineOnlyWhenNothingElse ==
    LET es == ChunkEntries
        kinds == [i \in 1..Len(ChunkFindings) |-> ChunkFindings[i].kind]
        Reports(kind) == \E i \in 1..Len(kinds) : kinds[i] = kind
        HasErrorStatus == \E i \in 1..Len(es) : es[i].status >= 400
        HasRepeatedPath ==
            \E i \in 1..Len(es) :
                Cardinality({j \in 1..Len(es) : es[j].path = es[i].path}) >= 3
        HasWriteRequest ==
            \E i \in 1..Len(es) : es[i].method \in {"POST", "PUT", "DELETE", "PATCH"}
    IN  (apc = "analysed" /\ es # <<>>) =>
            /\ Reports("routine") <=> ~ (HasErrorStatus \/ HasRepeatedPath \/ HasWriteRequest)
            /\ Reports("routine") => Len(kinds) = 1
            /\ Reports("errors") <=> HasErrorStatus
            /\ Reports("repeated") <=> HasRepeatedPath
            /\ Reports("writes") <=> HasWriteRequest
            /\ Reports("failed_logins") => Reports("errors")
            /\ \A i, j \in 1..Len(kinds) :
                  i < j => FindingRank(kinds[i]) < FindingRank(kinds[j])

\* two requests without error, repetition or write: the routine finding alone
\* becomes the note of the analysis
C27_Witness ==
    /\ apc = "analysed"
    /\ Len(ChunkEntries) = 2
    /\ ~ note_is_informative(parsed.note)
    /\ Len(ChunkFindings) = 1
    /\ ChunkFindings[1].kind = "routine"
    /\ analysis.analyst_note = <<RoutineNote(ChunkEntries)>>

\* C29: once a new analysis run has been started, no result of a superseded
\* worker joins the new run's list: every entry of _processed_sessions comes
\* from the worker of the latest run.
C29_ResultsFromCurrentWorker ==
    \A i \in 1..Len(processed_sessions) : processed_sessions[i].worker = Born

\* C30: the finished signal of a superseded worker never quits the thread
\* of a newer worker that is still running.
C30_FinishedTearsDownOwnWorker ==
    \A t \in teardowns : t.by # t.of => ~ t.running

====
